---- MODULE Spec2Model ----
(***************************************************************************)
(* Model of the hybrid pursuit engine AlgoritmoPersecucionInteligente      *)
(* (src/src/ia/smart_chase_algorithm.py) and of the part of                *)
(* PersecucionPygameEnv.step (src/src/envs/persecucion_env.py) that calls  *)
(* it once per live pursuer and per tick.                                  *)
(*                                                                         *)
(* Numbers.  Positions are integer pixels.  The code's floats are kept as  *)
(* scaled integers: A* costs and priorities in 1/10000 of a grid unit,     *)
(* forces in 1/100, fitness in 1/100.  Square roots are integer square     *)
(* roots of the scaled radicand.                                           *)
(*                                                                         *)
(* Randomness.  Every draw from the global `random` source is the next     *)
(* element of a cyclic tape of numerators u (the draw is u/10 in [0,1)).   *)
(* The tape (the seed) is chosen when the environment is built; the        *)
(* position on the tape carries over from one engine call to the next.     *)
(***************************************************************************)
EXTENDS Integers, Sequences, FiniteSets, TLC

\* ------------------------------------------------------------------------
\* Engine configuration (constructor arguments) and bounds of the model
\* ------------------------------------------------------------------------
ancho_mapa == 450
alto_mapa == 350
cell_size == 100
cols == ancho_mapa \div cell_size
rows == alto_mapa \div cell_size

\* ------------------------------------------------------------------------
\* Arithmetic helpers
\* ------------------------------------------------------------------------
\* F applied to the value v, computed once
Con(v, F(_)) == F(v)

Abs(a) == IF a < 0 THEN -a ELSE a

Max2(a, b) == IF a > b THEN a ELSE b

Min2(a, b) == IF a < b THEN a ELSE b

Sgn(a) == IF a > 0 THEN 1 ELSE IF a < 0 THEN -1 ELSE 0

\* integer square root, by bisection on [lo, hi)
RECURSIVE ISqrtB(_, _, _)
ISqrtB(n, lo, hi) ==
  IF hi - lo <= 1 THEN lo
  ELSE LET mid == (lo + hi) \div 2
       IN IF mid * mid <= n THEN ISqrtB(n, mid, hi) ELSE ISqrtB(n, lo, mid)

ISqrt(n) == ISqrtB(n, 0, 46341)

\* truncation toward zero of a / b (b > 0), as int() does on a float
DivT(a, b) == IF a >= 0 THEN a \div b ELSE -((-a) \div b)

\* ------------------------------------------------------------------------
\* Cells, positions, grid
\* ------------------------------------------------------------------------
Celdas == (0 .. rows - 1) \X (0 .. cols - 1)

EnGrid(c) == 0 <= c[1] /\ c[1] < rows /\ 0 <= c[2] /\ c[2] < cols

\* _pos_a_grid: (x, y) pixels -> (row, col)
pos_a_grid(x, y) == <<y \div cell_size, x \div cell_size>>

\* _grid_a_pos: (row, col) -> pixel centre (x, y)
grid_a_pos(i, j) == <<j * cell_size + cell_size \div 2, i * cell_size + cell_size \div 2>>

\* pygame.Rect.collidepoint: left <= px < right, top <= py < bottom
collidepoint(rx, ry, rw, rh, px, py) ==
  /\ rx <= px /\ px < rx + rw
  /\ ry <= py /\ py < ry + rh

\* pygame.Rect.colliderect of rectangles a and b (records x, y, w, h)
colliderect(a, b) ==
  /\ a.w > 0 /\ a.h > 0 /\ b.w > 0 /\ b.h > 0
  /\ a.x < b.x + b.w /\ a.x + a.w > b.x
  /\ a.y < b.y + b.h /\ a.y + a.h > b.y

margen_inflacion == 15

\* variant: the obstacle rectangles are not inflated
crear_grid_sin_margen(obstaculos) ==
  [c \in Celdas |->
     IF \E k \in 1 .. Len(obstaculos) :
          LET o == obstaculos[k]
              p == grid_a_pos(c[1], c[2])
          IN collidepoint(o.x, o.y, o.ancho, o.alto, p[1], p[2])
     THEN 1 ELSE 0]

\* _crear_grid_mejorado: 1 where the cell centre lies in an inflated obstacle
crear_grid_mejorado(obstaculos) ==
  [c \in Celdas |->
     IF \E k \in 1 .. Len(obstaculos) :
          LET o == obstaculos[k]
              p == grid_a_pos(c[1], c[2])
          IN collidepoint(o.x - margen_inflacion, o.y - margen_inflacion,
                          o.ancho + 2 * margen_inflacion,
                          o.alto + 2 * margen_inflacion, p[1], p[2])
     THEN 1 ELSE 0]

\* ------------------------------------------------------------------------
\* Grid search: _a_star_con_heuristica_mejorada
\* ------------------------------------------------------------------------
None == <<-1, -1>>

COSTO_ORTOGONAL == 10000
COSTO_DIAGONAL == 14140
COSTO_GIRO == 1000

\* 0.7 * euclidean + 0.3 * manhattan, in 1/10000
heuristica(goal, n) ==
  LET di == goal[1] - n[1]
      dj == goal[2] - n[2]
  IN ISqrt(49000000 * (di * di + dj * dj)) + 3000 * (Abs(di) + Abs(dj))

\* tuple order of heapq entries (priority, (row, col))
EntradaMenor(a, b) ==
  \/ a[1] < b[1]
  \/ a[1] = b[1] /\ a[2][1] < b[2][1]
  \/ a[1] = b[1] /\ a[2][1] = b[2][1] /\ a[2][2] < b[2][2]

heappop(heap) == CHOOSE a \in heap : \A b \in heap \ {a} : EntradaMenor(a, b)

\* variant of Vecinos: the four orthogonal neighbours only
Vecinos_ortogonales(grid, c) ==
  {n \in Celdas : /\ Abs(n[1] - c[1]) + Abs(n[2] - c[2]) = 1
                  /\ grid[n] = 0}

\* variant of Vecinos: blocked cells are neighbours too
Vecinos_con_bloqueadas(grid, c) ==
  {n \in Celdas : /\ n # c
                  /\ Abs(n[1] - c[1]) <= 1 /\ Abs(n[2] - c[2]) <= 1}

\* the free in-grid cells among the eight neighbours of c
Vecinos(grid, c) ==
  {n \in Celdas : /\ n # c
                  /\ Abs(n[1] - c[1]) <= 1 /\ Abs(n[2] - c[2]) <= 1
                  /\ grid[n] = 0}

move_cost(came_from, current, n) ==
  LET base == IF n[1] # current[1] /\ n[2] # current[2]
              THEN COSTO_DIAGONAL ELSE COSTO_ORTOGONAL
      prev == came_from[current]
  IN IF prev # None /\ <<current[1] - prev[1], current[2] - prev[2]>>
                        # <<n[1] - current[1], n[2] - current[2]>>
     THEN base + COSTO_GIRO ELSE base

\* variant of a_star_expandir: the popped entry stays in the heap
a_star_expandir_sin_extraer(goal, heap, came_from, cost_so_far, top, nc) ==
  [heap |-> heap \cup {<<nc[n] + heuristica(goal, n), n>> : n \in DOMAIN nc},
   came_from |-> [n \in DOMAIN came_from \cup DOMAIN nc |->
                    IF n \in DOMAIN nc THEN top[2] ELSE came_from[n]],
   cost_so_far |-> [n \in DOMAIN cost_so_far \cup DOMAIN nc |->
                      IF n \in DOMAIN nc THEN nc[n] ELSE cost_so_far[n]]]

\* the heap, predecessors and costs after expanding the popped entry `top`;
\* nc maps every neighbour reached first or cheaper to its new cost
a_star_expandir(goal, heap, came_from, cost_so_far, top, nc) ==
  [heap |-> (heap \ {top}) \cup {<<nc[n] + heuristica(goal, n), n>> : n \in DOMAIN nc},
   came_from |-> [n \in DOMAIN came_from \cup DOMAIN nc |->
                    IF n \in DOMAIN nc THEN top[2] ELSE came_from[n]],
   cost_so_far |-> [n \in DOMAIN cost_so_far \cup DOMAIN nc |->
                      IF n \in DOMAIN nc THEN nc[n] ELSE cost_so_far[n]]]

\* the candidates <<neighbour, new_cost>> of `current` that improve on cost_so_far
a_star_mejores(grid, came_from, cost_so_far, current) ==
  {p \in {<<n, cost_so_far[current] + move_cost(came_from, current, n)>> :
            n \in Vecinos(grid, current)} :
     p[1] \notin DOMAIN cost_so_far \/ p[2] < cost_so_far[p[1]]}

\* a set of pairs <<key, value>> with distinct keys, as a function
ComoFuncion(pares) ==
  [n \in {p[1] : p \in pares} |-> (CHOOSE p \in pares : p[1] = n)[2]]

RECURSIVE a_star_bucle(_, _, _)
a_star_desde(grid, goal, st, top) ==
  IF top[2] = goal THEN st.came_from
  ELSE a_star_bucle(grid, goal,
         a_star_expandir(goal, st.heap, st.came_from, st.cost_so_far, top,
           ComoFuncion(a_star_mejores(grid, st.came_from, st.cost_so_far, top[2]))))

\* the while-heap loop on st = [heap, came_from, cost_so_far]; returns came_from
a_star_bucle(grid, goal, st) ==
  IF st.heap = {} THEN st.came_from
  ELSE a_star_desde(grid, goal, st, heappop(st.heap))

\* variant of reconstruir: the walk back stops before the start cell
RECURSIVE reconstruir_sin_inicio(_, _)
reconstruir_sin_inicio(came_from, node) ==
  IF came_from[node] = None THEN <<>>
  ELSE Append(reconstruir_sin_inicio(came_from, came_from[node]), node)

\* path reconstruction: follow came_from from node back to the start
RECURSIVE reconstruir(_, _)
reconstruir(came_from, node) ==
  IF node = None THEN <<>>
  ELSE Append(reconstruir(came_from, came_from[node]), node)

a_star_con_heuristica_mejorada(grid, start, goal) ==
  Con(a_star_bucle(grid, goal,
                   [heap |-> {<<0, start>>}, came_from |-> [n \in {start} |-> None],
                    cost_so_far |-> [n \in {start} |-> 0]]),
      LAMBDA came_from :
        IF goal \notin DOMAIN came_from THEN <<>> ELSE reconstruir(came_from, goal))

\* ------------------------------------------------------------------------
\* Action table and quantizers
\* ------------------------------------------------------------------------
movimientos ==
  << <<0, -1>>, <<1, -1>>, <<1, 0>>, <<1, 1>>,
     <<0, 1>>, <<-1, 1>>, <<-1, 0>>, <<-1, -1>>, <<0, 0>> >>

QUIETO == 8

\* variant of indice_movimiento: the position counted from 1
indice_movimiento_base1(d) ==
  IF \E k \in 1 .. Len(movimientos) : movimientos[k] = d
  THEN CHOOSE k \in 1 .. Len(movimientos) :
         /\ movimientos[k] = d
         /\ \A m \in 1 .. k - 1 : movimientos[m] # d
  ELSE QUIETO

\* movimientos.index(d), or 8 on ValueError
indice_movimiento(d) ==
  IF \E k \in 1 .. Len(movimientos) : movimientos[k] = d
  THEN (CHOOSE k \in 1 .. Len(movimientos) :
          /\ movimientos[k] = d
          /\ \A m \in 1 .. k - 1 : movimientos[m] # d) - 1
  ELSE QUIETO

\* variant of SobreUmbral: threshold 0.75, i.e. a > 0 and 7 a^2 > 9 b^2
SobreUmbralTresCuartos(a, b) ==
  LET k == (Max2(Abs(a), Abs(b)) \div 20000) + 1
      a1 == DivT(a, k)
      b1 == DivT(b, k)
  IN a > 0 /\ 7 * a1 * a1 > 9 * b1 * b1

\* component / magnitude > 0.5, i.e. a > 0 and 3 a^2 > b^2 (b the other component)
SobreUmbral(a, b) ==
  LET k == (Max2(Abs(a), Abs(b)) \div 20000) + 1
      a1 == DivT(a, k)
      b1 == DivT(b, k)
  IN a > 0 /\ 3 * a1 * a1 > b1 * b1

\* _fuerza_a_accion on a force in 1/100
fuerza_a_accion(fx, fy) ==
  IF Abs(fx) < 10 /\ Abs(fy) < 10 /\ fx * fx + fy * fy < 100
  THEN QUIETO
  ELSE LET dx == IF SobreUmbral(fx, fy) THEN 1
                 ELSE IF SobreUmbral(-fx, fy) THEN -1 ELSE 0
           dy == IF SobreUmbral(fy, fx) THEN 1
                 ELSE IF SobreUmbral(-fy, fx) THEN -1 ELSE 0
       IN indice_movimiento(<<dx, dy>>)

\* _path_a_accion: first step of a route, relative to the pursuer's cell
path_a_accion(path, start) ==
  IF Len(path) < 2 THEN QUIETO
  ELSE LET next_pos == path[2]
           di == Max2(-1, Min2(1, next_pos[1] - start[1]))
           dj == Max2(-1, Min2(1, next_pos[2] - start[2]))
       IN indice_movimiento(<<dj, di>>)

\* ------------------------------------------------------------------------
\* Motion history and trajectory predictor
\* ------------------------------------------------------------------------
MAXLEN_HISTORIAL == 10

\* variant of actualizar_historial_jugador: a list without maxlen
historial_sin_limite(historial, jugador) == Append(historial, jugador)

\* deque(maxlen=10).append
actualizar_historial_jugador(historial, jugador) ==
  LET h == Append(historial, jugador)
  IN IF Len(h) > MAXLEN_HISTORIAL THEN Tail(h) ELSE h

\* variant of SumaPonderada: every difference weighted 1
RECURSIVE SumaSinPeso(_, _, _)
SumaSinPeso(h, eje, k) ==
  IF k = 0 THEN 0
  ELSE (h[k + 1][eje] - h[k][eje]) + SumaSinPeso(h, eje, k - 1)

RECURSIVE SumaPonderada(_, _, _)
\* sum over i = 1 .. k of i * (h[i+1][eje] - h[i][eje])
SumaPonderada(h, eje, k) ==
  IF k = 0 THEN 0
  ELSE k * (h[k + 1][eje] - h[k][eje]) + SumaPonderada(h, eje, k - 1)

PASOS_PREDICCION == 3

\* variant of predecir_posicion_jugador: the velocity subtracted
predecir_hacia_atras(historial) ==
  IF Len(historial) < 3
  THEN IF Len(historial) > 0
       THEN <<historial[Len(historial)][1], historial[Len(historial)][2], 1>>
       ELSE <<0, 0, 1>>
  ELSE LET k == Len(historial) - 1
           sum_weights == (k * (k + 1)) \div 2
           pos_actual == historial[Len(historial)]
           px == pos_actual[1] * sum_weights - PASOS_PREDICCION * SumaPonderada(historial, 1, k)
           py == pos_actual[2] * sum_weights - PASOS_PREDICCION * SumaPonderada(historial, 2, k)
       IN <<Max2(0, Min2(px, ancho_mapa * sum_weights)),
            Max2(0, Min2(py, alto_mapa * sum_weights)), sum_weights>>

\* _predecir_posicion_jugador: the forecast as <<x numerator, y numerator, denominator>>
predecir_posicion_jugador(historial) ==
  IF Len(historial) < 3
  THEN IF Len(historial) > 0
       THEN <<historial[Len(historial)][1], historial[Len(historial)][2], 1>>
       ELSE <<0, 0, 1>>
  ELSE LET k == Len(historial) - 1
           sum_weights == (k * (k + 1)) \div 2
           pos_actual == historial[Len(historial)]
           px == pos_actual[1] * sum_weights + PASOS_PREDICCION * SumaPonderada(historial, 1, k)
           py == pos_actual[2] * sum_weights + PASOS_PREDICCION * SumaPonderada(historial, 2, k)
       IN <<Max2(0, Min2(px, ancho_mapa * sum_weights)),
            Max2(0, Min2(py, alto_mapa * sum_weights)), sum_weights>>

\* _pos_a_grid of a forecast
pos_predicha_a_grid(p) == <<p[2] \div (p[3] * cell_size), p[1] \div (p[3] * cell_size)>>

\* ------------------------------------------------------------------------
\* Line of sight: _hay_obstaculo_directo
\* ------------------------------------------------------------------------
\* variant of hay_obstaculo_directo: the sampling starts at the pursuer itself
hay_obstaculo_directo_con_origen(enemigo, jugador, obstaculos) ==
  LET steps == Max2(Abs(enemigo[1] - jugador[1]), Abs(enemigo[2] - jugador[2])) \div cell_size
  IN \E i \in 0 .. steps : \E k \in 1 .. Len(obstaculos) :
       LET x_inter == IF steps = 0 THEN enemigo[1]
                      ELSE (enemigo[1] * steps + (jugador[1] - enemigo[1]) * i) \div steps
           y_inter == IF steps = 0 THEN enemigo[2]
                      ELSE (enemigo[2] * steps + (jugador[2] - enemigo[2]) * i) \div steps
           o == obstaculos[k]
       IN colliderect([x |-> x_inter, y |-> y_inter, w |-> 2, h |-> 2],
                      [x |-> o.x, y |-> o.y, w |-> o.ancho, h |-> o.alto])

\* samples 1 .. steps of the segment pursuer -> target against every obstacle
hay_obstaculo_directo(enemigo, jugador, obstaculos) ==
  LET steps == Max2(Abs(enemigo[1] - jugador[1]), Abs(enemigo[2] - jugador[2])) \div cell_size
  IN /\ steps # 0
     /\ \E i \in 1 .. steps : \E k \in 1 .. Len(obstaculos) :
          LET x_inter == (enemigo[1] * steps + (jugador[1] - enemigo[1]) * i) \div steps
              y_inter == (enemigo[2] * steps + (jugador[2] - enemigo[2]) * i) \div steps
              o == obstaculos[k]
          IN colliderect([x |-> x_inter, y |-> y_inter, w |-> 2, h |-> 2],
                         [x |-> o.x, y |-> o.y, w |-> o.ancho, h |-> o.alto])

\* ------------------------------------------------------------------------
\* Potential field: _campo_potencial
\* ------------------------------------------------------------------------
RADIO_EVITACION == 25

\* attraction 10 * d / max(|d|, 1), in 1/100
fuerza_atractiva(d, d2) ==
  IF d2 = 0 THEN 0 ELSE DivT(10000 * d, ISqrt(100 * d2))

\* twice the vector from the obstacle's centre to the pursuer
DosDist(enemigo, o) ==
  <<2 * enemigo[1] - (2 * o.x + o.ancho), 2 * enemigo[2] - (2 * o.y + o.alto)>>

\* variant of fuerza_repulsiva: an obstacle at exactly the radius repels too
fuerza_repulsiva_radio_inclusivo(e2, eje) ==
  LET D2 == e2[1] * e2[1] + e2[2] * e2[2]
  IN IF D2 > 4 * RADIO_EVITACION * RADIO_EVITACION THEN 0
     ELSE IF D2 < 4 THEN 25000 * e2[eje]
     ELSE DivT(20000000 * e2[eje], D2 * ISqrt(10000 * D2))

\* repulsion of one obstacle along one axis, in 1/100:
\*   (dist_eje / max(dist, 1)) * 500 / max(dist^2, 1)
fuerza_repulsiva(e2, eje) ==
  LET D2 == e2[1] * e2[1] + e2[2] * e2[2]
  IN IF D2 >= 4 * RADIO_EVITACION * RADIO_EVITACION THEN 0
     ELSE IF D2 < 4 THEN 25000 * e2[eje]
     ELSE DivT(20000000 * e2[eje], D2 * ISqrt(10000 * D2))

RECURSIVE SumaRepulsion(_, _, _, _)
SumaRepulsion(enemigo, obstaculos, eje, k) ==
  IF k = 0 THEN 0
  ELSE fuerza_repulsiva(DosDist(enemigo, obstaculos[k]), eje)
       + SumaRepulsion(enemigo, obstaculos, eje, k - 1)

campo_potencial(enemigo, jugador, obstaculos) ==
  LET dx == jugador[1] - enemigo[1]
      dy == jugador[2] - enemigo[2]
      d2 == dx * dx + dy * dy
      fx_total == fuerza_atractiva(dx, d2) + SumaRepulsion(enemigo, obstaculos, 1, Len(obstaculos))
      fy_total == fuerza_atractiva(dy, d2) + SumaRepulsion(enemigo, obstaculos, 2, Len(obstaculos))
  IN fuerza_a_accion(fx_total, fy_total)

\* ------------------------------------------------------------------------
\* Predictive grid search: _a_star_predictivo
\* ------------------------------------------------------------------------
\* variant of a_star_predictivo: no second search towards the actual target
a_star_predictivo_sin_reintento(historial, enemigo, jugador, obstaculos) ==
  Con(crear_grid_mejorado(obstaculos), LAMBDA grid :
  Con(pos_a_grid(enemigo[1], enemigo[2]), LAMBDA start :
    [accion |-> path_a_accion(a_star_con_heuristica_mejorada(grid, start,
                   pos_predicha_a_grid(predecir_posicion_jugador(historial))), start),
     busquedas |-> 1]))

\* [accion, busquedas]: the action and the number of grid searches run
a_star_predictivo(historial, enemigo, jugador, obstaculos) ==
  Con(crear_grid_mejorado(obstaculos), LAMBDA grid :
  Con(pos_a_grid(enemigo[1], enemigo[2]), LAMBDA start :
  Con(a_star_con_heuristica_mejorada(grid, start,
        pos_predicha_a_grid(predecir_posicion_jugador(historial))), LAMBDA path1 :
    IF Len(path1) < 2
    THEN [accion |-> path_a_accion(a_star_con_heuristica_mejorada(grid, start,
                                     pos_a_grid(jugador[1], jugador[2])), start),
          busquedas |-> 2]
    ELSE [accion |-> path_a_accion(path1, start), busquedas |-> 1])))

\* ------------------------------------------------------------------------
\* The global random source, as a cyclic tape of numerators u (draw = u / 10)
\* ------------------------------------------------------------------------
MaxSemilla == 3

ValoresCinta == <<5, 0, 9>>

\* the tape of a seed: its three base-3 digits, mapped to draws 0.5, 0.0, 0.9
Cinta(semilla) ==
  <<ValoresCinta[(semilla % 3) + 1],
    ValoresCinta[((semilla \div 3) % 3) + 1],
    ValoresCinta[((semilla \div 9) % 3) + 1]>>

\* the i-th draw (i counts the draws already made)
Sorteo(cinta, i) == cinta[(i % Len(cinta)) + 1]

\* random._randbelow(n): uniform in 0 .. n-1
randbelow(cinta, i, n) == (Sorteo(cinta, i) * n) \div 10

\* random.choice([-1, 0, 1])
choice3(cinta, i) == randbelow(cinta, i, 3) - 1

\* ------------------------------------------------------------------------
\* Genetic route optimizer
\* ------------------------------------------------------------------------
TAMANO_POBLACION == 20
MAX_PASOS == 15
ELITE == 5
TAMANO_TORNEO == 3
EXCEPCION == -1

\* _generar_ruta_aleatoria: [ruta, i] after at most `pasos` more segments
RECURSIVE generar_ruta_aleatoria(_, _, _, _, _, _)
generar_ruta_aleatoria(cinta, i, ruta, pos_actual, goal, pasos) ==
  IF pasos = 0 \/ pos_actual = goal THEN [ruta |-> ruta, i |-> i]
  ELSE LET dirigido == Sorteo(cinta, i) < 7
           dx == IF dirigido THEN Sgn(goal[2] - pos_actual[2]) ELSE choice3(cinta, i + 1)
           dy == IF dirigido THEN Sgn(goal[1] - pos_actual[1]) ELSE choice3(cinta, i + 2)
           i2 == IF dirigido THEN i + 1 ELSE i + 3
           nueva_pos == <<pos_actual[1] + dy, pos_actual[2] + dx>>
       IN IF EnGrid(nueva_pos)
          THEN generar_ruta_aleatoria(cinta, i2, Append(ruta, nueva_pos), nueva_pos, goal, pasos - 1)
          ELSE generar_ruta_aleatoria(cinta, i2, ruta, pos_actual, goal, pasos - 1)

\* _inicializar_poblacion_genetica: [pob, i]
RECURSIVE inicializar_poblacion_genetica(_, _, _, _, _, _)
inicializar_poblacion_genetica(cinta, i, pob, start, goal, faltan) ==
  IF faltan = 0 THEN [pob |-> pob, i |-> i]
  ELSE Con(generar_ruta_aleatoria(cinta, i, <<start>>, start, goal, MAX_PASOS), LAMBDA r :
         inicializar_poblacion_genetica(cinta, r.i,
           Append(pob, [path |-> r.ruta, fitness |-> 0]), start, goal, faltan - 1))

\* number of cells of the route that land on a blocked grid cell
Colisiones(ruta, grid) ==
  Cardinality({k \in 1 .. Len(ruta) : EnGrid(ruta[k]) /\ grid[ruta[k]] = 1})

\* number of changes of direction along the route
CambiosDireccion(ruta) ==
  Cardinality({k \in 3 .. Len(ruta) :
     <<ruta[k - 1][1] - ruta[k - 2][1], ruta[k - 1][2] - ruta[k - 2][2]>>
       # <<ruta[k][1] - ruta[k - 1][1], ruta[k][2] - ruta[k - 1][2]>>})

\* max(0, 200 - distance(final cell centre, target)), in 1/100
Cercania(ruta, jugador) ==
  LET p == grid_a_pos(ruta[Len(ruta)][1], ruta[Len(ruta)][2])
      d2 == (p[1] - jugador[1]) * (p[1] - jugador[1])
            + (p[2] - jugador[2]) * (p[2] - jugador[2])
  IN IF d2 >= 40000 THEN 0 ELSE 20000 - ISqrt(10000 * d2)

\* variant of fitness_ruta: no penalty for blocked cells
fitness_sin_colisiones(ruta, jugador, grid) ==
  IF Len(ruta) = 0 THEN -100000
  ELSE - 200 * Len(ruta) + Cercania(ruta, jugador) - 500 * CambiosDireccion(ruta)

\* fitness of one route, in 1/100
fitness_ruta(ruta, jugador, grid) ==
  IF Len(ruta) = 0 THEN -100000
  ELSE - 200 * Len(ruta) + Cercania(ruta, jugador)
       - 5000 * Colisiones(ruta, grid) - 500 * CambiosDireccion(ruta)

\* the loop of _evaluar_poblacion over the first k individuals
RECURSIVE evaluar_individuos(_, _, _, _)
evaluar_individuos(pob, jugador, grid, k) ==
  IF k = 0 THEN <<>>
  ELSE Append(evaluar_individuos(pob, jugador, grid, k - 1),
              [path |-> pob[k].path, fitness |-> fitness_ruta(pob[k].path, jugador, grid)])

\* _evaluar_poblacion
evaluar_poblacion(pob, jugador, obstaculos) ==
  Con(crear_grid_mejorado(obstaculos), LAMBDA grid :
        evaluar_individuos(pob, jugador, grid, Len(pob)))

\* list.sort(key=fitness, reverse=True): stable, descending
RECURSIVE InsertarOrdenado(_, _)
InsertarOrdenado(ordenada, x) ==
  IF ordenada = <<>> THEN <<x>>
  ELSE IF Head(ordenada).fitness >= x.fitness
       THEN <<Head(ordenada)>> \o InsertarOrdenado(Tail(ordenada), x)
       ELSE <<x>> \o ordenada

RECURSIVE OrdenarPorFitness(_, _)
OrdenarPorFitness(pob, k) ==
  IF k = 0 THEN <<>>
  ELSE InsertarOrdenado(OrdenarPorFitness(pob, k - 1), pob[k])

\* max(seq, key=fitness): index of the first individual of maximal fitness
IndiceMejor(pob) ==
  CHOOSE k \in 1 .. Len(pob) :
    /\ \A m \in 1 .. Len(pob) : pob[m].fitness <= pob[k].fitness
    /\ \A m \in 1 .. k - 1 : pob[m].fitness < pob[k].fitness

\* random.sample(range(n), k), pool variant (n <= 21): the chosen indices in order
RECURSIVE sample(_, _, _, _, _)
sample(cinta, i, pool, elegidos, faltan) ==
  IF faltan = 0 THEN elegidos
  ELSE LET n == Len(pool)
           j == randbelow(cinta, i, n) + 1
           pool2 == SubSeq([pool EXCEPT ![j] = pool[n]], 1, n - 1)
       IN sample(cinta, i + 1, pool2, Append(elegidos, pool[j]), faltan - 1)

\* _seleccion_torneo: [ind, i]
seleccion_torneo(cinta, i, pob) ==
  Con(sample(cinta, i, [m \in 1 .. Len(pob) |-> m], <<>>, Min2(TAMANO_TORNEO, Len(pob))),
      LAMBDA idx :
        Con([m \in 1 .. Len(idx) |-> pob[idx[m]]], LAMBDA candidatos :
              [ind |-> candidatos[IndiceMejor(candidatos)], i |-> i + Len(idx)]))

\* variant of cruce: the second parent is appended whole
cruce_sin_cortar(cinta, i, padre1, padre2) ==
  IF Len(padre1.path) = 0 \/ Len(padre2.path) = 0
  THEN [hijo |-> [path |-> <<>>, fitness |-> 0], i |-> i, error |-> FALSE]
  ELSE LET m == Min2(Len(padre1.path), Len(padre2.path))
       IN IF m - 1 < 1
          THEN [hijo |-> [path |-> <<>>, fitness |-> 0], i |-> i, error |-> TRUE]
          ELSE LET punto_cruce == 1 + randbelow(cinta, i, m - 1)
               IN [hijo |-> [path |-> SubSeq(padre1.path, 1, punto_cruce) \o padre2.path,
                             fitness |-> 0],
                   i |-> i + 1, error |-> FALSE]

\* _cruce: [hijo, i, error]; random.randint(1, m - 1) raises ValueError when m = 1
cruce(cinta, i, padre1, padre2) ==
  IF Len(padre1.path) = 0 \/ Len(padre2.path) = 0
  THEN [hijo |-> [path |-> <<>>, fitness |-> 0], i |-> i, error |-> FALSE]
  ELSE LET m == Min2(Len(padre1.path), Len(padre2.path))
       IN IF m - 1 < 1
          THEN [hijo |-> [path |-> <<>>, fitness |-> 0], i |-> i, error |-> TRUE]
          ELSE LET punto_cruce == 1 + randbelow(cinta, i, m - 1)
               IN [hijo |-> [path |-> SubSeq(padre1.path, 1, punto_cruce)
                                       \o SubSeq(padre2.path, punto_cruce + 1, Len(padre2.path)),
                             fitness |-> 0],
                   i |-> i + 1, error |-> FALSE]

\* variant of reproducir: the loop runs while the new population is not larger
RECURSIVE reproducir_uno_de_mas(_, _, _, _)
reproducir_uno_de_mas(cinta, i, pob, nueva_poblacion) ==
  IF Len(nueva_poblacion) > Len(pob)
  THEN [pob |-> nueva_poblacion, i |-> i, error |-> FALSE]
  ELSE Con(seleccion_torneo(cinta, i, pob), LAMBDA padre1 :
       Con(seleccion_torneo(cinta, padre1.i, pob), LAMBDA padre2 :
       Con(cruce(cinta, padre2.i, padre1.ind, padre2.ind), LAMBDA c :
         IF c.error
         THEN [pob |-> pob, i |-> c.i, error |-> TRUE]
         ELSE reproducir_uno_de_mas(cinta, c.i, pob, Append(nueva_poblacion, c.hijo)))))

\* the reproduction loop of _seleccion_y_reproduccion: [pob, i, error];
\* on an exception the population stays the sorted old one
RECURSIVE reproducir(_, _, _, _)
reproducir(cinta, i, pob, nueva_poblacion) ==
  IF Len(nueva_poblacion) >= Len(pob)
  THEN [pob |-> nueva_poblacion, i |-> i, error |-> FALSE]
  ELSE Con(seleccion_torneo(cinta, i, pob), LAMBDA padre1 :
       Con(seleccion_torneo(cinta, padre1.i, pob), LAMBDA padre2 :
       Con(cruce(cinta, padre2.i, padre1.ind, padre2.ind), LAMBDA c :
         IF c.error
         THEN [pob |-> pob, i |-> c.i, error |-> TRUE]
         ELSE reproducir(cinta, c.i, pob, Append(nueva_poblacion, c.hijo)))))

\* _seleccion_y_reproduccion: sort in place, keep the elite, fill with children
seleccion_y_reproduccion(cinta, i, pob) ==
  Con(OrdenarPorFitness(pob, Len(pob)), LAMBDA ordenada :
        reproducir(cinta, i, ordenada, SubSeq(ordenada, 1, Min2(ELITE, Len(ordenada)))))

\* variant of mutacion: the new cell is stored without the bounds test
RECURSIVE mutacion_sin_limites(_, _, _, _)
mutacion_sin_limites(cinta, i, pob, k) ==
  IF k > Len(pob) THEN [pob |-> pob, i |-> i]
  ELSE IF Sorteo(cinta, i) < 1 /\ Len(pob[k].path) > 0
       THEN LET idx == randbelow(cinta, i + 1, Len(pob[k].path)) + 1
                pos_actual == pob[k].path[idx]
                dx == choice3(cinta, i + 2)
                dy == choice3(cinta, i + 3)
                nueva_pos == <<pos_actual[1] + dy, pos_actual[2] + dx>>
            IN mutacion_sin_limites(cinta, i + 4,
                 [pob EXCEPT ![k].path[idx] = nueva_pos], k + 1)
       ELSE mutacion_sin_limites(cinta, i + 1, pob, k + 1)

\* _mutacion, individuals k .. Len(pob): [pob, i]
RECURSIVE mutacion(_, _, _, _)
mutacion(cinta, i, pob, k) ==
  IF k > Len(pob) THEN [pob |-> pob, i |-> i]
  ELSE IF Sorteo(cinta, i) < 1 /\ Len(pob[k].path) > 0
       THEN LET idx == randbelow(cinta, i + 1, Len(pob[k].path)) + 1
                pos_actual == pob[k].path[idx]
                dx == choice3(cinta, i + 2)
                dy == choice3(cinta, i + 3)
                nueva_pos == <<pos_actual[1] + dy, pos_actual[2] + dx>>
            IN IF EnGrid(nueva_pos)
               THEN mutacion(cinta, i + 4, [pob EXCEPT ![k].path[idx] = nueva_pos], k + 1)
               ELSE mutacion(cinta, i + 4, pob, k + 1)
       ELSE mutacion(cinta, i + 1, pob, k + 1)

\* the generation loop of _algoritmo_genetico: [pob, i, error]
RECURSIVE evolucionar(_, _, _, _, _, _)
evolucionar(cinta, i, pob, jugador, obstaculos, generaciones) ==
  IF generaciones = 0 THEN [pob |-> pob, i |-> i, error |-> FALSE]
  ELSE Con(seleccion_y_reproduccion(cinta, i, evaluar_poblacion(pob, jugador, obstaculos)),
           LAMBDA s :
             IF s.error THEN s
             ELSE Con(mutacion(cinta, s.i, s.pob, 1), LAMBDA m :
                    evolucionar(cinta, m.i, m.pob, jugador, obstaculos, generaciones - 1)))

\* the end of _algoritmo_genetico, fin being the outcome of the generation loop
mejor_accion_genetico(fin, start, sembro) ==
  IF fin.error
  THEN [accion |-> EXCEPCION, pob |-> fin.pob, sembro |-> sembro, mejor |-> <<>>, i |-> fin.i]
  ELSE Con(fin.pob[IndiceMejor(fin.pob)], LAMBDA mejor_ruta :
         [accion |-> IF Len(mejor_ruta.path) > 1
                     THEN path_a_accion(mejor_ruta.path, start) ELSE QUIETO,
          pob |-> fin.pob, sembro |-> sembro, mejor |-> mejor_ruta.path, i |-> fin.i])

\* variant of algoritmo_genetico: the population is seeded at every invocation
algoritmo_genetico_resiembra(cinta, i, pob, enemigo, jugador, obstaculos, generaciones) ==
  Con(pos_a_grid(enemigo[1], enemigo[2]), LAMBDA start :
  Con(inicializar_poblacion_genetica(cinta, i, <<>>, start,
        pos_a_grid(jugador[1], jugador[2]), TAMANO_POBLACION), LAMBDA ini :
  Con(evolucionar(cinta, ini.i, ini.pob, jugador, obstaculos, generaciones), LAMBDA fin :
        mejor_accion_genetico(fin, start, TRUE))))

\* _algoritmo_genetico from draw i: [accion, pob, sembro, mejor, i]
algoritmo_genetico(cinta, i, pob, enemigo, jugador, obstaculos, generaciones) ==
  Con(pos_a_grid(enemigo[1], enemigo[2]), LAMBDA start :
  Con(IF pob = <<>>
      THEN inicializar_poblacion_genetica(cinta, i, <<>>, start,
             pos_a_grid(jugador[1], jugador[2]), TAMANO_POBLACION)
      ELSE [pob |-> pob, i |-> i], LAMBDA ini :
  Con(evolucionar(cinta, ini.i, ini.pob, jugador, obstaculos, generaciones), LAMBDA fin :
        mejor_accion_genetico(fin, start, pob = <<>>))))

\* ------------------------------------------------------------------------
\* Dispatcher: calcular_mejor_accion and _algoritmo_hibrido
\* ------------------------------------------------------------------------
UMBRAL_LEJOS_GEN == 300
UMBRAL_LEJOS == 200
GENERACIONES_HIBRIDO == 3
GENERACIONES_DEFECTO == 5

Dist2(a, b) == (a[1] - b[1]) * (a[1] - b[1]) + (a[2] - b[2]) * (a[2] - b[2])

\* variant of estrategia_hibrido: the far threshold taken inclusively
estrategia_hibrido_umbral_inclusivo(enemigo, jugador, obstaculos) ==
  IF Dist2(enemigo, jugador) >= UMBRAL_LEJOS_GEN * UMBRAL_LEJOS_GEN THEN "genetico"
  ELSE IF Dist2(enemigo, jugador) > UMBRAL_LEJOS * UMBRAL_LEJOS THEN "predictivo"
  ELSE IF ~ hay_obstaculo_directo(enemigo, jugador, obstaculos) THEN "campo_potencial"
  ELSE "predictivo"

\* the strategy _algoritmo_hibrido delegates to
estrategia_hibrido(enemigo, jugador, obstaculos) ==
  IF Dist2(enemigo, jugador) > UMBRAL_LEJOS_GEN * UMBRAL_LEJOS_GEN THEN "genetico"
  ELSE IF Dist2(enemigo, jugador) > UMBRAL_LEJOS * UMBRAL_LEJOS THEN "predictivo"
  ELSE IF ~ hay_obstaculo_directo(enemigo, jugador, obstaculos) THEN "campo_potencial"
  ELSE "predictivo"

\* variant of estrategia_de: an unrecognized mode handled as the hybrid one
estrategia_de_sin_respaldo(modo, enemigo, jugador, obstaculos) ==
  IF modo = "predictivo" THEN "predictivo"
  ELSE IF modo = "campo_potencial" THEN "campo_potencial"
  ELSE IF modo = "genetico" THEN "genetico"
  ELSE estrategia_hibrido(enemigo, jugador, obstaculos)

\* the strategy calcular_mejor_accion runs under a mode
estrategia_de(modo, enemigo, jugador, obstaculos) ==
  IF modo = "hibrido" THEN estrategia_hibrido(enemigo, jugador, obstaculos)
  ELSE IF modo = "predictivo" THEN "predictivo"
  ELSE IF modo = "campo_potencial" THEN "campo_potencial"
  ELSE IF modo = "genetico" THEN "genetico"
  ELSE "predictivo"

\* the generation budget passed to _algoritmo_genetico
generaciones_de(modo) ==
  IF modo = "hibrido" THEN GENERACIONES_HIBRIDO ELSE GENERACIONES_DEFECTO

\* only _algoritmo_hibrido records the target's position
historial_tras_llamada(modo, historial, jugador) ==
  IF modo = "hibrido" THEN actualizar_historial_jugador(historial, jugador) ELSE historial

\* calcular_mejor_accion on an engine whose state is (historial, pob), the
\* random source standing at draw i: the record of the call, with the state it leaves
calcular_mejor_accion(cinta, i, historial, pob, enemigo, jugador, obstaculos, modo) ==
  Con([enemigo |-> enemigo,
       estrategia |-> estrategia_de(modo, enemigo, jugador, obstaculos),
       generaciones |-> 0, accion |-> QUIETO, sembro |-> FALSE, busquedas |-> 0,
       hist_antes |-> historial,
       hist_despues |-> historial_tras_llamada(modo, historial, jugador),
       pob_antes |-> pob, pob_despues |-> pob, mejor |-> <<>>, i_antes |-> i, i |-> i], LAMBDA base :
    IF base.estrategia = "genetico"
    THEN Con(algoritmo_genetico(cinta, i, pob, enemigo, jugador, obstaculos,
                                generaciones_de(modo)), LAMBDA g :
           [base EXCEPT !.generaciones = generaciones_de(modo), !.accion = g.accion,
                        !.sembro = g.sembro, !.pob_despues = g.pob, !.mejor = g.mejor,
                        !.i = g.i])
    ELSE IF base.estrategia = "campo_potencial"
    THEN [base EXCEPT !.accion = campo_potencial(enemigo, jugador, obstaculos)]
    ELSE Con(a_star_predictivo(base.hist_despues, enemigo, jugador, obstaculos), LAMBDA a :
           [base EXCEPT !.accion = a.accion, !.busquedas = a.busquedas]))

\* ------------------------------------------------------------------------
\* The simulation step and its inputs
\* ------------------------------------------------------------------------
NumEnemigos == 2
MaxPasos == 2

Modos == {"hibrido", "predictivo", "campo_potencial", "genetico", "otro"}

Obstaculo(x, y, ancho, alto) == [x |-> x, y |-> y, ancho |-> ancho, alto |-> alto]

\* obstacle lists: none; one block over the cell (1, 1)
Mapas == {<<>>, <<Obstaculo(140, 140, 30, 30)>>}

\* target positions: below the last grid row; on the first pursuer; in its
\* cell; in the last row, 300 px from the second pursuer
PosJugador == {<<380, 320>>, <<150, 150>>, <<120, 180>>, <<350, 250>>}

\* pursuer positions: the cell (1, 1); the cell (2, 0) of the last row
PosEnemigo == <<<<150, 150>>, <<50, 250>>>>

\* the pursuers' positions: pursuer k stands at PosEnemigo[k + r], cyclically
Formaciones ==
  {[k \in 1 .. NumEnemigos |-> PosEnemigo[((k + r) % Len(PosEnemigo)) + 1]] :
     r \in 0 .. Len(PosEnemigo) - 1}

\* variant of algoritmo_ia: one engine instance per pursuer
algoritmo_por_enemigo(idx) == idx

\* PersecucionPygameEnv.__init__: one engine instance serves every pursuer
algoritmo_ia(idx) == 1

\* modo_ia .. acciones_enemigos: the environment's and the engine's fields and
\* the locals of step(); traza: the records of the engine calls of the current
\* tick; busqueda: one direct call of the grid search, with its arguments and
\* result; registradas: every position handed to _actualizar_historial_jugador;
\* prueba: one direct call of a side-effect-free method, with its arguments and
\* result; evolucion: the progress of one genetic invocation, generation by
\* generation; bucle: the locals of one loop of the engine, iteration by
\* iteration; reloj: the parity of the number of loop iterations executed;
\* mapa: the obstacle list objects, the map worker thread and the engine call
\* in progress
VARIABLES modo_ia, obstaculos, jugador, enemigos, historial_jugador, poblacion_rutas,
          semilla, sorteos, turno, pasos, action, acciones_enemigos, traza,
          busqueda, registradas, prueba, evolucion, bucle, reloj, mapa

vars == <<modo_ia, obstaculos, jugador, enemigos, historial_jugador, poblacion_rutas,
          semilla, sorteos, turno, pasos, action, acciones_enemigos, traza,
          busqueda, registradas, prueba, evolucion, bucle, reloj, mapa>>

\* the environment's and the engine's fields and the locals of step()
vars_motor == <<modo_ia, obstaculos, jugador, enemigos, historial_jugador, poblacion_rutas,
                semilla, sorteos, turno, pasos, action, acciones_enemigos, traza>>

\* no direct call of a method made
SinPrueba == [fn |-> "ninguna", hecho |-> FALSE]

\* no genetic invocation in progress
SinEvolucion == [fase |-> "ninguna"]

\* no loop in progress
SinBucle == [fase |-> "ninguno"]

\* no map update and no engine call under observation
SinMapa == [fase |-> "ninguno"]

\* no direct call of the grid search made
SinBusqueda ==
  [grid |-> [c \in Celdas |-> 0], start |-> <<0, 0>>, goal |-> <<0, 0>>,
   path |-> <<>>, hecho |-> FALSE]

SIN_ACCION == -2

\* the agent's own action, an input of step()
AccionesAgente == {2, QUIETO}

Init ==
  /\ modo_ia \in Modos
  /\ obstaculos \in Mapas
  /\ jugador = <<150, 150>>
  /\ enemigos = [k \in 1 .. NumEnemigos |-> PosEnemigo[(k % Len(PosEnemigo)) + 1]]
  /\ historial_jugador = [m \in 1 .. NumEnemigos |-> <<>>]
  /\ poblacion_rutas = [m \in 1 .. NumEnemigos |-> <<>>]
  /\ semilla \in 0 .. MaxSemilla
  /\ sorteos = 0
  /\ turno = 0
  /\ pasos = 0
  /\ action = SIN_ACCION
  /\ acciones_enemigos = <<>>
  /\ traza = <<>>
  /\ busqueda = SinBusqueda
  /\ registradas = <<>>
  /\ prueba = SinPrueba
  /\ evolucion = SinEvolucion
  /\ bucle = SinBucle
  /\ reloj = 0
  /\ mapa = SinMapa

\* step(), entry: a new tick; the positions are those left by movement and input
IniciarPaso(j, es) ==
  /\ turno = 0
  /\ pasos < MaxPasos
  /\ pasos' = pasos + 1
  /\ jugador' = j
  /\ enemigos' = es
  /\ turno' = 1
  /\ action' = SIN_ACCION
  /\ acciones_enemigos' = <<>>
  /\ traza' = <<>>
  /\ UNCHANGED <<modo_ia, obstaculos, historial_jugador, poblacion_rutas, semilla, sorteos,
                 busqueda, registradas, prueba, evolucion, bucle, reloj, mapa>>

\* step(), one iteration of the loop over the live pursuers: the engine call
\* for pursuer `turno`; on an exception the agent's own action is used instead
LlamadaIA ==
  /\ turno \in 1 .. NumEnemigos
  /\ traza' = Append(traza,
       calcular_mejor_accion(Cinta(semilla), sorteos, historial_jugador[algoritmo_ia(turno)],
                             poblacion_rutas[algoritmo_ia(turno)],
                             enemigos[turno], jugador, obstaculos, modo_ia))
  /\ historial_jugador' =
       [historial_jugador EXCEPT ![algoritmo_ia(turno)] = traza'[Len(traza')].hist_despues]
  /\ poblacion_rutas' =
       [poblacion_rutas EXCEPT ![algoritmo_ia(turno)] = traza'[Len(traza')].pob_despues]
  /\ sorteos' = traza'[Len(traza')].i % Len(Cinta(semilla))
  /\ IF traza'[Len(traza')].accion = EXCEPCION
     THEN /\ IF action = SIN_ACCION THEN action' \in AccionesAgente ELSE action' = action
          /\ acciones_enemigos' = Append(acciones_enemigos, action')
     ELSE /\ action' = action
          /\ acciones_enemigos' = Append(acciones_enemigos, traza'[Len(traza')].accion)
  /\ turno' = turno + 1
  /\ UNCHANGED <<modo_ia, obstaculos, jugador, enemigos, semilla, pasos,
                 busqueda, registradas, prueba, evolucion, bucle, reloj, mapa>>

\* step(), after the loop: the pursuers move by their actions and the tick ends
MoverEnemigos ==
  /\ turno = NumEnemigos + 1
  /\ turno' = 0
  /\ UNCHANGED <<modo_ia, obstaculos, jugador, enemigos, historial_jugador, poblacion_rutas,
                 semilla, sorteos, pasos, action, acciones_enemigos, traza,
                 busqueda, registradas, prueba, evolucion, bucle, reloj, mapa>>

Next ==
  \/ \E j \in PosJugador : \E es \in Formaciones : IniciarPaso(j, es)
  \/ LlamadaIA
  \/ MoverEnemigos

Spec == Init /\ [][Next]_vars

\* the record of the latest engine call of the current tick
ultima == traza[Len(traza)]

\* the environment just built, no tick started: the state around a direct
\* call of one of the engine's methods
MotorEnReposo ==
  /\ modo_ia = "hibrido"
  /\ obstaculos = <<>>
  /\ jugador = <<150, 150>>
  /\ enemigos = [k \in 1 .. NumEnemigos |-> PosEnemigo[(k % Len(PosEnemigo)) + 1]]
  /\ historial_jugador = [m \in 1 .. NumEnemigos |-> <<>>]
  /\ poblacion_rutas = [m \in 1 .. NumEnemigos |-> <<>>]
  /\ semilla = 0
  /\ sorteos = 0
  /\ turno = 0
  /\ pasos = 0
  /\ action = SIN_ACCION
  /\ acciones_enemigos = <<>>
  /\ traza = <<>>

\* ------------------------------------------------------------------------
\* The motion history on its own: a run of _actualizar_historial_jugador calls
\* ------------------------------------------------------------------------
MaxRegistros == 12

\* the positions recorded
PosRegistro == {<<150, 150>>, <<120, 180>>}

InitHistorial ==
  /\ modo_ia = "hibrido"
  /\ obstaculos = <<>>
  /\ jugador = <<150, 150>>
  /\ enemigos = [k \in 1 .. NumEnemigos |-> PosEnemigo[(k % Len(PosEnemigo)) + 1]]
  /\ historial_jugador = [m \in 1 .. NumEnemigos |-> <<>>]
  /\ poblacion_rutas = [m \in 1 .. NumEnemigos |-> <<>>]
  /\ semilla = 0
  /\ sorteos = 0
  /\ turno = 0
  /\ pasos = 0
  /\ action = SIN_ACCION
  /\ acciones_enemigos = <<>>
  /\ traza = <<>>
  /\ busqueda = SinBusqueda
  /\ registradas = <<>>
  /\ prueba = SinPrueba
  /\ evolucion = SinEvolucion
  /\ bucle = SinBucle
  /\ reloj = 0
  /\ mapa = SinMapa

\* one call _actualizar_historial_jugador(p) on the shared engine
Registrar(p) ==
  /\ Len(registradas) < MaxRegistros
  /\ jugador' = p
  /\ historial_jugador' =
       [historial_jugador EXCEPT
          ![algoritmo_ia(1)] = actualizar_historial_jugador(@, p)]
  /\ registradas' = Append(registradas, p)
  /\ UNCHANGED <<modo_ia, obstaculos, enemigos, poblacion_rutas, semilla, sorteos, turno,
                 pasos, action, acciones_enemigos, traza, busqueda,
                 prueba, evolucion, bucle, reloj, mapa>>

NextHistorial == \E p \in PosRegistro : Registrar(p)

SpecHistorial == InitHistorial /\ [][NextHistorial]_vars

\* ------------------------------------------------------------------------
\* The grid search on its own: one call on an arbitrary grid
\* ------------------------------------------------------------------------
MaxBloqueadas == 3

\* the occupancy grids with at most MaxBloqueadas blocked cells
Grids ==
  {[c \in Celdas |-> IF c \in B THEN 1 ELSE 0] :
     B \in {S \in SUBSET Celdas : Cardinality(S) <= MaxBloqueadas}}

\* start cells: a corner; an inner cell; a cell below the last row
Inicios == {<<0, 0>>, <<1, 1>>, <<rows, 0>>}

\* goal cells: every cell of the grid, and one below the last row
Metas == Celdas \cup {<<rows, cols - 1>>}

InitAStar ==
  /\ modo_ia = "hibrido"
  /\ obstaculos = <<>>
  /\ jugador = <<150, 150>>
  /\ enemigos = [k \in 1 .. NumEnemigos |-> PosEnemigo[(k % Len(PosEnemigo)) + 1]]
  /\ historial_jugador = [m \in 1 .. NumEnemigos |-> <<>>]
  /\ poblacion_rutas = [m \in 1 .. NumEnemigos |-> <<>>]
  /\ semilla = 0
  /\ sorteos = 0
  /\ turno = 0
  /\ pasos = 0
  /\ action = SIN_ACCION
  /\ acciones_enemigos = <<>>
  /\ traza = <<>>
  /\ busqueda \in [grid : Grids, start : Inicios, goal : Metas,
                   path : {<<>>}, hecho : {FALSE}]
  /\ registradas = <<>>
  /\ prueba = SinPrueba
  /\ evolucion = SinEvolucion
  /\ bucle = SinBucle
  /\ reloj = 0
  /\ mapa = SinMapa

\* the call _a_star_con_heuristica_mejorada(grid, start, goal)
Buscar ==
  /\ ~ busqueda.hecho
  /\ busqueda' =
       [busqueda EXCEPT
          !.path = a_star_con_heuristica_mejorada(busqueda.grid, busqueda.start,
                                                  busqueda.goal),
          !.hecho = TRUE]
  /\ UNCHANGED <<modo_ia, obstaculos, jugador, enemigos, historial_jugador,
                 poblacion_rutas, semilla, sorteos, turno, pasos, action,
                 acciones_enemigos, traza, registradas, prueba, evolucion, bucle, reloj, mapa>>

NextAStar == Buscar

SpecAStar == InitAStar /\ [][NextAStar]_vars

\* ------------------------------------------------------------------------
\* Properties of the engine calls (specification Spec)
\* ------------------------------------------------------------------------
\* the genetic optimizer ran with n generations and no grid search
CorrioGenetico(r, n) ==
  /\ r.estrategia = "genetico" /\ r.generaciones = n /\ r.busquedas = 0
  /\ r.pob_despues # <<>>

\* the predictive grid search ran, and the genetic optimizer did not
CorrioPredictivo(r) ==
  /\ r.estrategia = "predictivo" /\ r.busquedas >= 1 /\ r.generaciones = 0
  /\ r.pob_despues = r.pob_antes

\* the potential field ran, and neither the grid search nor the optimizer
CorrioCampo(r) ==
  /\ r.estrategia = "campo_potencial" /\ r.busquedas = 0 /\ r.generaciones = 0
  /\ r.pob_despues = r.pob_antes

\* C1: every engine call that returns, in any mode and after any earlier calls
\* on the same engine, returns an integer in 0 .. 8.
C1_AccionEnRango ==
  \A k \in 1 .. Len(traza) :
    traza[k].accion # EXCEPCION => traza[k].accion \in 0 .. 8

\* C1, reached: an unrecognized mode, the second tick, its second call, and
\* the call returns a direction
C1_Testigo ==
  /\ modo_ia = "otro" /\ pasos = 2 /\ Len(traza) = 2
  /\ ultima.accion \in 0 .. 7

\* C2: a hybrid-mode call with pursuer-target distance > 300 runs the genetic
\* strategy and completes with an action in 0 .. 8, never an exception, for
\* every outcome of the random draws, on a fresh engine or after earlier calls.
C2_GeneticoSinExcepcion ==
  \A k \in 1 .. Len(traza) :
    (modo_ia = "hibrido" /\ Dist2(traza[k].enemigo, jugador) > 300 * 300)
      => (traza[k].estrategia = "genetico" /\ traza[k].accion \in 0 .. 8)

\* C3: under mode "hibrido" the strategy run is a function of distance and
\* line of sight alone: > 300 genetic with 3 generations; in (200, 300]
\* predictive grid search; <= 200 potential field when the line of sight is
\* clear and predictive grid search when it is blocked; whatever the history,
\* the population and the earlier calls are.
C3_DespachoHibrido ==
  \A k \in 1 .. Len(traza) :
    LET r == traza[k]
        d2 == Dist2(r.enemigo, jugador)
        bloqueada == hay_obstaculo_directo(r.enemigo, jugador, obstaculos)
    IN modo_ia = "hibrido" =>
         /\ d2 > 300 * 300 => CorrioGenetico(r, 3)
         /\ (d2 <= 300 * 300 /\ d2 > 200 * 200) => CorrioPredictivo(r)
         /\ (d2 <= 200 * 200 /\ ~ bloqueada) => CorrioCampo(r)
         /\ (d2 <= 200 * 200 /\ bloqueada) => CorrioPredictivo(r)

\* C3, reached: one hybrid tick, same target and obstacles; the first call
\* (distance 0, clear) runs the potential field, the second (distance <= 200,
\* blocked) the grid search, on a history that is no longer empty
C3_Testigo ==
  /\ modo_ia = "hibrido" /\ Len(traza) = 2
  /\ Dist2(traza[1].enemigo, jugador) = 0 /\ CorrioCampo(traza[1])
  /\ Dist2(traza[2].enemigo, jugador) <= 200 * 200
  /\ hay_obstaculo_directo(traza[2].enemigo, jugador, obstaculos)
  /\ CorrioPredictivo(traza[2])
  /\ traza[2].hist_antes # <<>>

\* C4: under a non-hybrid mode the strategy run is fixed by the mode string,
\* whatever the distance and the line of sight: "predictivo" the predictive
\* grid search, "campo_potencial" the potential field, "genetico" the genetic
\* optimizer with 5 generations, any other string the predictive grid search,
\* which returns an action instead of failing.
C4_DespachoForzado ==
  \A k \in 1 .. Len(traza) :
    LET r == traza[k]
    IN /\ modo_ia = "predictivo" => CorrioPredictivo(r)
       /\ modo_ia = "campo_potencial" => CorrioCampo(r)
       /\ modo_ia = "genetico" => CorrioGenetico(r, 5)
       /\ modo_ia \notin {"hibrido", "predictivo", "campo_potencial", "genetico"}
            => (CorrioPredictivo(r) /\ r.accion \in 0 .. 8)

\* C4, reached: an unrecognized mode at a distance > 300 runs the grid search
C4_Testigo ==
  /\ modo_ia = "otro" /\ traza # <<>>
  /\ Dist2(ultima.enemigo, jugador) > 300 * 300
  /\ CorrioPredictivo(ultima) /\ ultima.accion \in 0 .. 8

\* C5: every engine call, in every mode, appends the target's current
\* position to the motion history exactly once.
C5_CadaLlamadaRegistra ==
  \A k \in 1 .. Len(traza) :
    LET antes == traza[k].hist_antes
    IN traza[k].hist_despues =
         IF Len(antes) < 10 THEN Append(antes, jugador)
         ELSE Append(Tail(antes), jugador)

\* C7: the pursuers of one tick are served by one engine, so there is one
\* history and one population: each call starts from the history and the
\* population the preceding call left, and in hybrid mode the k calls of a
\* tick leave k samples of the same target position at the end of the history.
C7_MotorCompartido ==
  /\ \A k \in 2 .. Len(traza) :
       /\ traza[k].hist_antes = traza[k - 1].hist_despues
       /\ traza[k].pob_antes = traza[k - 1].pob_despues
  /\ (modo_ia = "hibrido" /\ traza # <<>>) =>
       LET h == ultima.hist_despues
       IN /\ Len(h) = Min2(10, Len(traza[1].hist_antes) + Len(traza))
          /\ \A m \in 0 .. Len(traza) - 1 : h[Len(h) - m] = jugador

\* C7, reached: a hybrid tick on a fresh engine; the first call seeds the
\* population and records the target, the second call starts from both
C7_Testigo ==
  /\ modo_ia = "hibrido" /\ Len(traza) = 2
  /\ traza[1].pob_antes = <<>> /\ traza[1].hist_antes = <<>>
  /\ traza[1].sembro
  /\ traza[2].enemigo # traza[1].enemigo
  /\ traza[2].pob_antes = traza[1].pob_despues /\ traza[2].pob_antes # <<>>
  /\ traza[2].hist_antes = <<jugador>>
  /\ traza[2].hist_despues = <<jugador, jugador>>

SinObstaculoCerca(e) ==
  \A k \in 1 .. Len(obstaculos) :
    LET o == obstaculos[k]
        dx2 == 2 * e[1] - (2 * o.x + o.ancho)
        dy2 == 2 * e[2] - (2 * o.y + o.alto)
    IN dx2 * dx2 + dy2 * dy2 >= 4 * 25 * 25

C6_UltimosDiez ==
  LET n == Len(registradas)
      h == historial_jugador[algoritmo_ia(1)]
  IN /\ Len(h) = Min2(n, 10)
     /\ \A k \in 1 .. Len(h) : h[k] = registradas[n - Len(h) + k]

\* C6, reached: eleven positions recorded, the first two different; the
\* history is full and starts at the second one
C6_Testigo ==
  /\ Len(registradas) = 11 /\ registradas[1] # registradas[2]
  /\ Len(historial_jugador[algoritmo_ia(1)]) = 10
  /\ historial_jugador[algoritmo_ia(1)][1] = registradas[2]
  /\ historial_jugador[algoritmo_ia(1)][10] = registradas[11]

\* ------------------------------------------------------------------------
\* Properties of the grid search (specification SpecAStar)
\* ------------------------------------------------------------------------
\* the cells reachable from the set S by 8-connected moves into free cells
RECURSIVE Alcance(_, _)
Alcance(g, S) ==
  LET N == S \cup {n \in Celdas :
                     /\ g[n] = 0
                     /\ \E c \in S : /\ c # n
                                     /\ Abs(c[1] - n[1]) <= 1
                                     /\ Abs(c[2] - n[2]) <= 1}
  IN IF N = S THEN S ELSE Alcance(g, N)

Alcanzable(g, a, b) == b \in Alcance(g, {a})

\* C8: a returned non-empty path starts at start, ends at goal, and its
\* consecutive cells differ by at most 1 in each axis and are distinct.
C8_CaminoValido ==
  LET path == busqueda.path
  IN (busqueda.hecho /\ path # <<>>) =>
       /\ path[1] = busqueda.start
       /\ path[Len(path)] = busqueda.goal
       /\ \A k \in 1 .. Len(path) - 1 :
            /\ Abs(path[k + 1][1] - path[k][1]) <= 1
            /\ Abs(path[k + 1][2] - path[k][2]) <= 1
            /\ path[k + 1] # path[k]

\* C8, reached: a path of at least four cells around blocked cells, with a
\* diagonal and an orthogonal step
C8_Testigo ==
  LET path == busqueda.path
  IN /\ busqueda.hecho /\ Len(path) >= 4
     /\ \E c \in Celdas : busqueda.grid[c] = 1
     /\ \E k \in 1 .. Len(path) - 1 :
          path[k + 1][1] # path[k][1] /\ path[k + 1][2] # path[k][2]
     /\ \E k \in 1 .. Len(path) - 1 :
          path[k + 1][1] = path[k][1] \/ path[k + 1][2] = path[k][2]

\* C9: the search returns a non-empty path exactly when the goal is reachable
\* from the start by 8-connected moves through free in-grid cells, the empty
\* sequence otherwise; a free cell every route has to pass (a gap in a wall)
\* lies on the returned path.
C9_CaminoSiiAlcanzable ==
  busqueda.hecho =>
    /\ busqueda.path # <<>> <=> Alcanzable(busqueda.grid, busqueda.start, busqueda.goal)
    /\ \A g \in Celdas :
         (/\ busqueda.grid[g] = 0
          /\ Alcanzable(busqueda.grid, busqueda.start, busqueda.goal)
          /\ ~ Alcanzable([busqueda.grid EXCEPT ![g] = 1], busqueda.start, busqueda.goal))
           => \E k \in 1 .. Len(busqueda.path) : busqueda.path[k] = g

\* C9, reached: two blocked cells of one column leave a single gap between
\* start and goal, and the returned path goes through the gap
C9_Testigo ==
  /\ busqueda.hecho /\ busqueda.path # <<>>
  /\ \E j \in 0 .. cols - 1 : \E g \in Celdas :
       /\ g[2] = j /\ g \notin {busqueda.start, busqueda.goal}
       /\ busqueda.start[2] < j /\ j < busqueda.goal[2]
       /\ \A c \in Celdas : c[2] = j => (busqueda.grid[c] = 0 <=> c = g)
       /\ \E k \in 1 .. Len(busqueda.path) : busqueda.path[k] = g

\* ------------------------------------------------------------------------
\* Properties of the simulation step (specification Spec)
\* ------------------------------------------------------------------------
\* C11: when the engine call made for a pursuer raises inside step(), the
\* caller catches it and that pursuer's action for the tick is Hold (8); the
\* loop still gives every pursuer of the tick an action.
C11_ExcepcionQuieto ==
  /\ Len(acciones_enemigos) = Len(traza)
  /\ turno = NumEnemigos + 1 => Len(acciones_enemigos) = NumEnemigos
  /\ \A k \in 1 .. Len(traza) :
       traza[k].accion = EXCEPCION => acciones_enemigos[k] = QUIETO

\* ------------------------------------------------------------------------
\* The genetic optimizer on its own: one invocation, generation by generation
\* ------------------------------------------------------------------------
MaxGeneraciones == 5

InitGenetico ==
  /\ modo_ia = "genetico"
  /\ obstaculos \in Mapas
  /\ jugador \in PosJugador
  /\ enemigos \in Formaciones
  /\ historial_jugador = [m \in 1 .. NumEnemigos |-> <<>>]
  /\ poblacion_rutas = [m \in 1 .. NumEnemigos |-> <<>>]
  /\ semilla \in 0 .. MaxSemilla
  /\ sorteos = 0
  /\ turno = 0
  /\ pasos = 0
  /\ action = SIN_ACCION
  /\ acciones_enemigos = <<>>
  /\ traza = <<>>
  /\ busqueda = SinBusqueda
  /\ registradas = <<>>
  /\ prueba = SinPrueba
  /\ evolucion = [fase |-> "inicio", generacion |-> 0, evaluada |-> <<>>]
  /\ bucle = SinBucle
  /\ reloj = 0
  /\ mapa = SinMapa

\* _algoritmo_genetico, entry: the empty population is seeded for pursuer 1
Sembrar ==
  /\ evolucion.fase = "inicio"
  /\ poblacion_rutas[algoritmo_ia(1)] = <<>>
  /\ LET ini == inicializar_poblacion_genetica(Cinta(semilla), sorteos, <<>>,
                  pos_a_grid(enemigos[1][1], enemigos[1][2]),
                  pos_a_grid(jugador[1], jugador[2]), TAMANO_POBLACION)
     IN /\ poblacion_rutas' = [poblacion_rutas EXCEPT ![algoritmo_ia(1)] = ini.pob]
        /\ sorteos' = ini.i % Len(Cinta(semilla))
  /\ evolucion' = [evolucion EXCEPT !.fase = "evolucion"]
  /\ UNCHANGED <<modo_ia, obstaculos, jugador, enemigos, historial_jugador, semilla,
                 turno, pasos, action, acciones_enemigos, traza,
                 busqueda, registradas, prueba, bucle, reloj, mapa>>

\* _algoritmo_genetico, one iteration of the generation loop: evaluate, select
\* and reproduce, mutate; an exception ends the invocation
Generacion ==
  /\ evolucion.fase = "evolucion"
  /\ evolucion.generacion < MaxGeneraciones
  /\ LET g == evolucionar(Cinta(semilla), sorteos, poblacion_rutas[algoritmo_ia(1)],
                          jugador, obstaculos, 1)
     IN /\ poblacion_rutas' = [poblacion_rutas EXCEPT ![algoritmo_ia(1)] = g.pob]
        /\ sorteos' = g.i % Len(Cinta(semilla))
        /\ evolucion' =
             [fase |-> IF g.error THEN "excepcion" ELSE "evolucion",
              generacion |-> evolucion.generacion + 1,
              evaluada |-> evaluar_poblacion(poblacion_rutas[algoritmo_ia(1)],
                                             jugador, obstaculos)]
  /\ UNCHANGED <<modo_ia, obstaculos, jugador, enemigos, historial_jugador, semilla,
                 turno, pasos, action, acciones_enemigos, traza,
                 busqueda, registradas, prueba, bucle, reloj, mapa>>

NextGenetico ==
  \/ Sembrar
  \/ Generacion

SpecGenetico == InitGenetico /\ [][NextGenetico]_vars

\* ------------------------------------------------------------------------
\* Properties of the genetic optimizer (specification SpecGenetico)
\* ------------------------------------------------------------------------
\* C12: after seeding and after every generation (evaluate, select and
\* reproduce, mutate), whatever the random draws and however many generations
\* have run, the population holds exactly 20 individuals.
C12_TamanoPoblacion ==
  evolucion.fase \in {"evolucion", "excepcion"} =>
    Len(poblacion_rutas[algoritmo_ia(1)]) = 20

\* C12, reached: five generations have run without exception, the last one
\* from an evaluated population of 20, and children have replaced seeded routes
C12_Testigo ==
  /\ evolucion.fase = "evolucion" /\ evolucion.generacion = 5
  /\ Len(evolucion.evaluada) = 20
  /\ Len(poblacion_rutas[algoritmo_ia(1)]) = 20
  /\ \E k \in 1 .. 20 :
       poblacion_rutas[algoritmo_ia(1)][k].path # evolucion.evaluada[k].path

\* ------------------------------------------------------------------------
\* The side-effect-free methods on their own: one direct call each
\* ------------------------------------------------------------------------
MaxHistorial == 4

\* sampled target positions; the last one lies on the map's right edge
PosHistorial == {<<120, 180>>, <<150, 150>>, <<160, 140>>, <<350, 250>>, <<450, 345>>}

\* the histories of at most MaxHistorial samples
Historiales == UNION {[1 .. n -> PosHistorial] : n \in 0 .. MaxHistorial}

\* the calls _predecir_posicion_jugador() on each history
LlamadasPredecir ==
  {[fn |-> "predecir", historial |-> h, salida |-> <<>>, hecho |-> FALSE] :
     h \in Historiales}

\* the call _predecir_posicion_jugador()
Predecir ==
  /\ prueba.fn = "predecir" /\ ~ prueba.hecho
  /\ prueba' = [prueba EXCEPT !.salida = predecir_posicion_jugador(prueba.historial),
                              !.hecho = TRUE]
  /\ UNCHANGED <<vars_motor, busqueda, registradas, evolucion, bucle, reloj, mapa>>

\* obstacles for the grid: the 40 x 40 block at (100, 100); a block whose
\* inflated right and bottom edges fall on the centre of the cell (1, 1); one
\* whose inflated left and top edges fall on it; a block over six cells; one
\* reaching above the map
ObstaculosGrid ==
  {Obstaculo(100, 100, 40, 40), Obstaculo(100, 100, 35, 35),
   Obstaculo(165, 165, 20, 20), Obstaculo(40, 40, 220, 120),
   Obstaculo(200, 0, 100, 100)}

MaxObstaculos == 2

ListasObstaculos == UNION {[1 .. n -> ObstaculosGrid] : n \in 0 .. MaxObstaculos}

LlamadasGrid ==
  {[fn |-> "grid", obstaculos |-> l, salida |-> <<>>, hecho |-> FALSE] : l \in ListasObstaculos}

CrearGrid ==
  /\ prueba.fn = "grid" /\ ~ prueba.hecho
  /\ prueba' = [prueba EXCEPT !.salida = crear_grid_mejorado(prueba.obstaculos), !.hecho = TRUE]
  /\ UNCHANGED <<vars_motor, busqueda, registradas, evolucion, bucle, reloj, mapa>>

\* calls of the predictive strategy: the history is whatever the hybrid mode
\* left in it (nothing, one sample, three samples), the pursuer and the target
\* are those of the environment, with or without the block over the cell (1, 1)
LlamadasPredictivo ==
  {[fn |-> "predictivo", historial |-> h, enemigo |-> e, jugador |-> j,
    obstaculos |-> o, salida |-> <<>>, hecho |-> FALSE] :
     h \in {x \in Historiales : Len(x) \in {0, 1, 3}},
     e \in {PosEnemigo[k] : k \in 1 .. Len(PosEnemigo)},
     j \in PosJugador, o \in Mapas}

Predictivo ==
  /\ prueba.fn = "predictivo" /\ ~ prueba.hecho
  /\ prueba' = [prueba EXCEPT
                  !.salida = a_star_predictivo(prueba.historial, prueba.enemigo,
                                               prueba.jugador, prueba.obstaculos),
                  !.hecho = TRUE]
  /\ UNCHANGED <<vars_motor, busqueda, registradas, evolucion, bucle, reloj, mapa>>

\* routes of 3 cells over the grid whose cell (1, 1) the block of Mapas covers:
\* straight through (1, 1); around it to the same end; away from it; along the
\* last row; through (1, 1) with a turn; and two routes of 2 cells
RutasPrueba ==
  {<< <<1, 0>>, <<1, 1>>, <<1, 2>> >>, << <<1, 0>>, <<0, 1>>, <<1, 2>> >>,
   << <<1, 0>>, <<0, 0>>, <<0, 1>> >>, << <<2, 0>>, <<2, 1>>, <<2, 2>> >>,
   << <<0, 1>>, <<1, 1>>, <<1, 2>> >>, << <<1, 1>>, <<1, 2>> >>,
   << <<0, 2>>, <<1, 2>> >>}

\* targets: the centre of the cell (1, 2); below the last grid row
JugadoresEvaluar == {<<250, 150>>, <<380, 320>>}

LlamadasEvaluar ==
  {[fn |-> "evaluar", poblacion |-> <<[path |-> a, fitness |-> 0], [path |-> b, fitness |-> 0]>>,
    jugador |-> j, obstaculos |-> o, salida |-> <<>>, hecho |-> FALSE] :
     a \in RutasPrueba, b \in RutasPrueba, j \in JugadoresEvaluar, o \in Mapas}

Evaluar ==
  /\ prueba.fn = "evaluar" /\ ~ prueba.hecho
  /\ prueba' = [prueba EXCEPT
                  !.salida = evaluar_poblacion(prueba.poblacion, prueba.jugador, prueba.obstaculos),
                  !.hecho = TRUE]
  /\ UNCHANGED <<vars_motor, busqueda, registradas, evolucion, bucle, reloj, mapa>>

\* force components in 1/100: unit and zero; below and at the magnitude 0.1;
\* either side of the ratio 0.5 against a component of 1.00
ComponentesFuerza == {-100, -58, -57, -10, -9, -7, 0, 7, 9, 10, 57, 58, 100}

LlamadasCuantizar ==
  {[fn |-> "cuantizar", fx |-> x, fy |-> y, salida |-> <<>>, hecho |-> FALSE] :
     x \in ComponentesFuerza, y \in ComponentesFuerza}

Cuantizar ==
  /\ prueba.fn = "cuantizar" /\ ~ prueba.hecho
  /\ prueba' = [prueba EXCEPT !.salida = fuerza_a_accion(prueba.fx, prueba.fy), !.hecho = TRUE]
  /\ UNCHANGED <<vars_motor, busqueda, registradas, evolucion, bucle, reloj, mapa>>

\* obstacles around the pursuer at (150, 150), by the distance of their centre:
\* 25 along x; 24 along x; 25 along y; 25 as (15, 20); about 23 with a centre
\* at half pixels; far away
ObstaculosCampo ==
  {Obstaculo(165, 140, 20, 20), Obstaculo(164, 140, 20, 20),
   Obstaculo(135, 160, 30, 30), Obstaculo(155, 160, 20, 20),
   Obstaculo(160, 140, 25, 21), Obstaculo(300, 50, 40, 40)}

\* targets: on the pursuer; straight above it; in its cell; far, below the grid
JugadoresCampo == {<<150, 150>>, <<150, 100>>, <<120, 180>>, <<380, 320>>}

LlamadasCampo ==
  {[fn |-> "campo", enemigo |-> e, jugador |-> j, obstaculos |-> o,
    salida |-> <<>>, hecho |-> FALSE] :
     e \in {PosEnemigo[k] : k \in 1 .. Len(PosEnemigo)}, j \in JugadoresCampo,
     o \in UNION {[1 .. n -> ObstaculosCampo] : n \in 0 .. MaxObstaculos}}

CampoPotencial ==
  /\ prueba.fn = "campo" /\ ~ prueba.hecho
  /\ prueba' = [prueba EXCEPT
                  !.salida = campo_potencial(prueba.enemigo, prueba.jugador, prueba.obstaculos),
                  !.hecho = TRUE]
  /\ UNCHANGED <<vars_motor, busqueda, registradas, evolucion, bucle, reloj, mapa>>

\* one run of the random module: the first seeded route draws only directed
\* steps, each of the others starts with one random step (0.9, then 0.0 and 0.5
\* for dx and dy) followed by directed steps; every later draw is 0.5
SorteosUnaRutaSinPasos ==
  [k \in 1 .. TAMANO_POBLACION * (MAX_PASOS + 2 + 8 * GENERACIONES_DEFECTO) |->
     IF k > MAX_PASOS /\ k <= MAX_PASOS + (TAMANO_POBLACION - 1) * (MAX_PASOS + 2)
     THEN IF (k - MAX_PASOS - 1) % (MAX_PASOS + 2) = 0 THEN 9
          ELSE IF (k - MAX_PASOS - 1) % (MAX_PASOS + 2) = 1 THEN 0 ELSE 5
     ELSE 5]

\* the runs of the random module a direct genetic invocation is made under
CintaGenetico(c) == IF c <= MaxSemilla THEN Cinta(c) ELSE SorteosUnaRutaSinPasos

\* number of successive genetic invocations on one engine
MaxLlamadas == 2

\* an engine just built (no population yet, no pursuer served) and what stays
\* the same over its genetic invocations
LlamadasGenetico ==
  {[fn |-> "genetico", cinta |-> c, obstaculos |-> o, generaciones |-> g,
    enemigos |-> <<>>, jugador |-> <<0, 0>>, pob |-> <<>>, i |-> 0,
    salida |-> <<>>, hecho |-> FALSE] :
     c \in 0 .. MaxSemilla + 1, o \in Mapas,
     g \in {GENERACIONES_HIBRIDO, GENERACIONES_DEFECTO}}

\* _algoritmo_genetico(enemigo, jugador, obstaculos, generaciones) on the
\* engine's population.  Pursuers: in the last grid row; in the middle; in the
\* map and under the grid.  Targets: in the map and under the grid; in the grid
Genetico ==
  /\ prueba.fn = "genetico" /\ Len(prueba.enemigos) < MaxLlamadas
  /\ \E e \in {<<150, 250>>, <<150, 150>>, <<150, 320>>} :
       \E j \in {<<150, 320>>, <<120, 180>>} :
         prueba' =
           Con(algoritmo_genetico(CintaGenetico(prueba.cinta), prueba.i, prueba.pob, e, j,
                                  prueba.obstaculos, prueba.generaciones), LAMBDA g :
                 [prueba EXCEPT !.enemigos = Append(@, e), !.jugador = j,
                                !.pob = g.pob,
                                !.i = g.i % Len(CintaGenetico(prueba.cinta)),
                                !.salida = g, !.hecho = TRUE])
  /\ UNCHANGED <<vars_motor, busqueda, registradas, evolucion, bucle, reloj, mapa>>

\* routes of one to three cells, one of them from a cell under the grid
RutasGeneticas ==
  RutasPrueba \cup {<< <<1, 0>> >>, << <<rows, 1>>, <<rows - 1, 1>> >>}

\* the runs of the random module a crossover or a mutation is made under
LlamadasCruce ==
  {[fn |-> "cruce", cinta |-> Cinta(c), i |-> i,
    padre1 |-> [path |-> a, fitness |-> 0], padre2 |-> [path |-> b, fitness |-> 0],
    salida |-> <<>>, hecho |-> FALSE] :
     c \in 0 .. Len(ValoresCinta) * Len(ValoresCinta) * Len(ValoresCinta) - 1,
     i \in 0 .. Len(ValoresCinta) - 1, a \in RutasGeneticas, b \in RutasGeneticas}

Cruzar ==
  /\ prueba.fn = "cruce" /\ ~ prueba.hecho
  /\ prueba' = [prueba EXCEPT
                  !.salida = cruce(prueba.cinta, prueba.i, prueba.padre1, prueba.padre2),
                  !.hecho = TRUE]
  /\ UNCHANGED <<vars_motor, busqueda, registradas, evolucion, bucle, reloj, mapa>>

LlamadasMutacion ==
  {[fn |-> "mutacion", cinta |-> Cinta(c), i |-> i,
    poblacion |-> <<[path |-> a, fitness |-> 0], [path |-> b, fitness |-> 0]>>,
    salida |-> <<>>, hecho |-> FALSE] :
     c \in 0 .. Len(ValoresCinta) * Len(ValoresCinta) * Len(ValoresCinta) - 1,
     i \in 0 .. Len(ValoresCinta) - 1, a \in RutasGeneticas, b \in RutasGeneticas}

Mutar ==
  /\ prueba.fn = "mutacion" /\ ~ prueba.hecho
  /\ prueba' = [prueba EXCEPT
                  !.salida = mutacion(prueba.cinta, prueba.i, prueba.poblacion, 1).pob,
                  !.hecho = TRUE]
  /\ UNCHANGED <<vars_motor, busqueda, registradas, evolucion, bucle, reloj, mapa>>

InitFunciones ==
  /\ MotorEnReposo
  /\ busqueda = SinBusqueda
  /\ registradas = <<>>
  /\ evolucion = SinEvolucion
  /\ bucle = SinBucle
  /\ reloj = 0
  /\ mapa = SinMapa
  /\ \/ prueba \in LlamadasPredecir
     \/ prueba \in LlamadasGrid
     \/ prueba \in LlamadasPredictivo
     \/ prueba \in LlamadasEvaluar
     \/ prueba \in LlamadasCuantizar
     \/ prueba \in LlamadasCampo
     \/ prueba \in LlamadasGenetico
     \/ prueba \in LlamadasCruce
     \/ prueba \in LlamadasMutacion

NextFunciones ==
  \/ Predecir
  \/ CrearGrid
  \/ Predictivo
  \/ Evaluar
  \/ Cuantizar
  \/ CampoPotencial
  \/ Genetico
  \/ Cruzar
  \/ Mutar

SpecFunciones == InitFunciones /\ [][NextFunciones]_vars

\* ------------------------------------------------------------------------
\* Properties of the predictor (specification SpecFunciones)
\* ------------------------------------------------------------------------
\* sum of the coordinate `eje` of the first k samples
RECURSIVE SumaEje(_, _, _)
SumaEje(h, eje, k) == IF k = 0 THEN 0 ELSE h[k][eje] + SumaEje(h, eje, k - 1)

\* for k >= 3 samples: W times (last + 3 v) clamped to [0, limite], where W is
\* the sum of the weights 1 .. k-1 and W v the weighted sum of the differences,
\* which is (k-1) * last - (sum of the first k-1 samples)
PrediccionEsperada(h, eje, limite) ==
  LET k == Len(h)
      W == ((k - 1) * k) \div 2
      Wv == (k - 1) * h[k][eje] - SumaEje(h, eje, k - 1)
  IN Max2(0, Min2(h[k][eje] * W + 3 * Wv, limite * W))

\* C13: the forecast depends on the history and the map bounds only: (0, 0)
\* with no sample; the last sample with 1 or 2 samples; with k >= 3 samples
\* last + 3 v clamped to [0, map width] x [0, map height], v the mean of the
\* k-1 consecutive differences weighted 1 .. k-1, the most recent weighted most.
C13_Prediccion ==
  (prueba.fn = "predecir" /\ prueba.hecho) =>
    LET h == prueba.historial
        k == Len(h)
        p == prueba.salida
    IN /\ p[3] > 0
       /\ k = 0 => (p[1] = 0 /\ p[2] = 0)
       /\ k \in {1, 2} => (p[1] = h[k][1] * p[3] /\ p[2] = h[k][2] * p[3])
       /\ k >= 3 =>
            /\ p[1] * (((k - 1) * k) \div 2) = p[3] * PrediccionEsperada(h, 1, ancho_mapa)
            /\ p[2] * (((k - 1) * k) \div 2) = p[3] * PrediccionEsperada(h, 2, alto_mapa)

\* C13, reached: four samples with three different differences in x, and a
\* forecast strictly inside the map on both axes
C13_Testigo ==
  /\ prueba.fn = "predecir" /\ prueba.hecho
  /\ Len(prueba.historial) = 4
  /\ LET h == prueba.historial
         p == prueba.salida
     IN /\ Cardinality({h[2][1] - h[1][1], h[3][1] - h[2][1], h[4][1] - h[3][1]}) = 3
        /\ 0 < p[1] /\ p[1] < ancho_mapa * p[3]
        /\ 0 < p[2] /\ p[2] < alto_mapa * p[3]
        /\ p[1] # h[4][1] * p[3]

\* at least 3 samples, every consecutive difference with positive x component
AvanzaEnX(h) ==
  /\ Len(h) >= 3
  /\ \A i \in 1 .. Len(h) - 1 : h[i + 1][1] - h[i][1] > 0

\* C14: whenever the history holds at least 3 samples whose consecutive
\* differences all have a strictly positive x component, the forecast's x is
\* strictly greater than the x of the last sample.
C14_AvanceEnX ==
  (prueba.fn = "predecir" /\ prueba.hecho /\ AvanzaEnX(prueba.historial)) =>
    prueba.salida[1] > prueba.historial[Len(prueba.historial)][1] * prueba.salida[3]

\* C14, as the code has it: under the same premise the forecast's x is strictly
\* greater than the last sample's x when that x is below the map width; when
\* the last sample is at or beyond the map width the forecast is clamped to the
\* map width and is not greater.
C14_AvanceEnXDentro ==
  (prueba.fn = "predecir" /\ prueba.hecho /\ AvanzaEnX(prueba.historial)) =>
    LET ultimo_x == prueba.historial[Len(prueba.historial)][1]
        p == prueba.salida
    IN /\ ultimo_x < ancho_mapa => p[1] > ultimo_x * p[3]
       /\ ultimo_x >= ancho_mapa => (p[1] = ancho_mapa * p[3] /\ p[1] <= ultimo_x * p[3])

\* C14, reached: three samples moving in +x, the last inside the map, and a
\* forecast further along +x that the clamp has not touched
C14_Testigo ==
  /\ prueba.fn = "predecir" /\ prueba.hecho /\ AvanzaEnX(prueba.historial)
  /\ prueba.historial[Len(prueba.historial)][1] < ancho_mapa
  /\ prueba.salida[1] > prueba.historial[Len(prueba.historial)][1] * prueba.salida[3]
  /\ prueba.salida[1] < ancho_mapa * prueba.salida[3]

\* ------------------------------------------------------------------------
\* Properties of the navigation grid (specification SpecFunciones)
\* ------------------------------------------------------------------------
\* the point (px, py) lies in the rectangle o grown by m on every side, the
\* left and top edges included, the right and bottom edges excluded
EnInflado(o, m, px, py) ==
  /\ o.x - m <= px /\ px < o.x + o.ancho + m
  /\ o.y - m <= py /\ py < o.y + o.alto + m

\* C15: the grid marks the cell (i, j) blocked if and only if its centre
\* (j*cell + cell div 2, i*cell + cell div 2) lies inside at least one obstacle
\* rectangle inflated by the margin on all sides, every other cell of the grid
\* is free; for the single obstacle (100, 100, 40, 40) and margin 15 the blocked
\* cells are exactly those with centre inside (85, 85)-(155, 155).
C15_GridInflado ==
  (prueba.fn = "grid" /\ prueba.hecho) =>
    LET g == prueba.salida
        obs == prueba.obstaculos
        cx(j) == j * cell_size + cell_size \div 2
        cy(i) == i * cell_size + cell_size \div 2
    IN /\ DOMAIN g = (0 .. (alto_mapa \div cell_size) - 1) \X (0 .. (ancho_mapa \div cell_size) - 1)
       /\ \A c \in DOMAIN g :
            /\ g[c] \in {0, 1}
            /\ g[c] = 1 <=> \E k \in 1 .. Len(obs) : EnInflado(obs[k], 15, cx(c[2]), cy(c[1]))
       /\ obs = <<Obstaculo(100, 100, 40, 40)>> =>
            {c \in DOMAIN g : g[c] = 1} =
              {c \in DOMAIN g : /\ 85 <= cx(c[2]) /\ cx(c[2]) < 155
                                /\ 85 <= cy(c[1]) /\ cy(c[1]) < 155}

\* C15, reached: the grid of the single obstacle (100, 100, 40, 40), with the
\* cell (1, 1), whose centre (150, 150) only the inflation reaches, blocked and
\* all the other cells free
C15_Testigo ==
  /\ prueba.fn = "grid" /\ prueba.hecho
  /\ prueba.obstaculos = <<Obstaculo(100, 100, 40, 40)>>
  /\ prueba.salida[<<1, 1>>] = 1
  /\ \A c \in Celdas \ {<<1, 1>>} : prueba.salida[c] = 0

\* ------------------------------------------------------------------------
\* Properties of the predictive strategy (specification SpecFunciones)
\* ------------------------------------------------------------------------
\* the action whose table entry (dx, dy) is the step from the first to the
\* second cell (row, column) of the route
PrimerPaso(path) ==
  CHOOSE a \in 0 .. 7 :
    movimientos[a + 1] = <<path[2][2] - path[1][2], path[2][1] - path[1][1]>>

\* the route to the forecast cell and the route to the target's actual cell
RutaPredicha(ll) ==
  a_star_con_heuristica_mejorada(crear_grid_mejorado(ll.obstaculos),
    pos_a_grid(ll.enemigo[1], ll.enemigo[2]),
    pos_predicha_a_grid(predecir_posicion_jugador(ll.historial)))

RutaActual(ll) ==
  a_star_con_heuristica_mejorada(crear_grid_mejorado(ll.obstaculos),
    pos_a_grid(ll.enemigo[1], ll.enemigo[2]),
    pos_a_grid(ll.jugador[1], ll.jugador[2]))

\* C16: the predictive strategy first searches a route to the forecast cell and
\* takes its first step when that route has at least 2 cells; otherwise it
\* searches a route to the target's actual cell and takes that route's first
\* step; when the second route too has fewer than 2 cells the action is Hold.
C16_PredictivoConReintento ==
  (prueba.fn = "predictivo" /\ prueba.hecho) =>
    Con(RutaPredicha(prueba), LAMBDA p1 :
      IF Len(p1) >= 2
      THEN /\ prueba.salida.busquedas = 1
           /\ prueba.salida.accion = PrimerPaso(p1)
      ELSE Con(RutaActual(prueba), LAMBDA p2 :
             /\ prueba.salida.busquedas = 2
             /\ prueba.salida.accion = IF Len(p2) >= 2 THEN PrimerPaso(p2) ELSE QUIETO))

\* C16, reached: the forecast falls on the blocked cell (1, 1), no route leads
\* there, and the second search, to the target's actual cell, gives the step
C16_Testigo ==
  /\ prueba.fn = "predictivo" /\ prueba.hecho
  /\ Len(prueba.historial) = 3
  /\ Len(prueba.obstaculos) = 1
  /\ RutaPredicha(prueba) = <<>>
  /\ Len(RutaActual(prueba)) >= 2
  /\ prueba.salida.busquedas = 2
  /\ prueba.salida.accion # QUIETO

\* ------------------------------------------------------------------------
\* Properties of the fitness (specification SpecFunciones)
\* ------------------------------------------------------------------------
\* number of cells of the route inside an inflated obstacle of the call
Bloqueadas(ruta, obs) ==
  Cardinality({k \in 1 .. Len(ruta) :
     /\ EnGrid(ruta[k])
     /\ \E o \in 1 .. Len(obs) :
          EnInflado(obs[o], 15, ruta[k][2] * cell_size + cell_size \div 2,
                                ruta[k][1] * cell_size + cell_size \div 2)})

\* individuals a (with a blocked cell) and b (with none) of equal length
ChocaYNoChoca(a, b) ==
  /\ Len(prueba.poblacion[a].path) = Len(prueba.poblacion[b].path)
  /\ Bloqueadas(prueba.poblacion[a].path, prueba.obstaculos) >= 1
  /\ Bloqueadas(prueba.poblacion[b].path, prueba.obstaculos) = 0

\* C17: of two routes of equal length evaluated against the same target and
\* grid, one with at least one blocked cell and one with none, the evaluation
\* gives the route without blocked cells a strictly higher fitness.
C17_SinChoqueMejor ==
  (prueba.fn = "evaluar" /\ prueba.hecho) =>
    \A a, b \in 1 .. 2 :
      ChocaYNoChoca(a, b) => prueba.salida[b].fitness > prueba.salida[a].fitness

\* C17, as the code has it: the route without blocked cells scores strictly
\* higher when, besides, both routes end in the same cell and it has no more
\* changes of direction than the route with blocked cells.
C17_SinChoqueMejorMismoFinal ==
  (prueba.fn = "evaluar" /\ prueba.hecho) =>
    \A a, b \in 1 .. 2 :
      LET ra == prueba.poblacion[a].path
          rb == prueba.poblacion[b].path
      IN (/\ ChocaYNoChoca(a, b)
          /\ ra[Len(ra)] = rb[Len(rb)]
          /\ CambiosDireccion(rb) <= CambiosDireccion(ra))
         => prueba.salida[b].fitness > prueba.salida[a].fitness

\* C17, reached: two routes of 3 cells to the same end, one through the blocked
\* cell (1, 1) with a turn, one around it with a turn, the second scoring more
C17_Testigo ==
  /\ prueba.fn = "evaluar" /\ prueba.hecho
  /\ ChocaYNoChoca(1, 2)
  /\ Len(prueba.poblacion[1].path) = 3
  /\ prueba.poblacion[1].path[3] = prueba.poblacion[2].path[3]
  /\ CambiosDireccion(prueba.poblacion[1].path) = 1
  /\ CambiosDireccion(prueba.poblacion[2].path) = 1
  /\ prueba.salida[2].fitness > prueba.salida[1].fitness

\* ------------------------------------------------------------------------
\* Properties of the quantizer (specification SpecFunciones)
\* ------------------------------------------------------------------------
\* the directions N, NE, E, SE, S, SW, W, NW as (dx, dy), y growing downwards
TablaDirecciones ==
  << <<0, -1>>, <<1, -1>>, <<1, 0>>, <<1, 1>>, <<0, 1>>, <<-1, 1>>, <<-1, 0>>, <<-1, -1>> >>

\* C18: the quantizer maps the vector (0, -1) to action 0, maps (0, 0) and
\* every vector of magnitude below 0.1 to action 8 (Hold), and maps each of the
\* 8 direction entries N, NE, E, SE, S, SW, W, NW of the table, taken as a
\* force, back to its own index.
C18_Cuantizador ==
  (prueba.fn = "cuantizar" /\ prueba.hecho) =>
    /\ prueba.salida \in 0 .. 8
    /\ (prueba.fx = 0 /\ prueba.fy = -100) => prueba.salida = 0
    /\ (prueba.fx = 0 /\ prueba.fy = 0) => prueba.salida = 8
    /\ prueba.fx * prueba.fx + prueba.fy * prueba.fy < 10 * 10 => prueba.salida = 8
    /\ \A k \in 1 .. 8 :
         (prueba.fx = 100 * TablaDirecciones[k][1] /\ prueba.fy = 100 * TablaDirecciones[k][2])
           => prueba.salida = k - 1

\* C18, reached: the entry SW (-1, 1) of the table, quantized to its index 5
C18_Testigo ==
  /\ prueba.fn = "cuantizar" /\ prueba.hecho
  /\ prueba.fx = -100 /\ prueba.fy = 100
  /\ prueba.salida = 5

\* ------------------------------------------------------------------------
\* Properties of the potential field (specification SpecFunciones)
\* ------------------------------------------------------------------------
\* the centre of the obstacle o is at 25 px or more from the point e
\* (compared on doubled coordinates, the centre being at half pixels)
CentroFuera(e, o) ==
  (2 * e[1] - (2 * o.x + o.ancho)) * (2 * e[1] - (2 * o.x + o.ancho))
    + (2 * e[2] - (2 * o.y + o.alto)) * (2 * e[2] - (2 * o.y + o.alto)) >= 50 * 50

\* the action of the direction (dx, dy): along an axis when the component is
\* more than half the length of the vector; Hold for the null vector
DireccionCuantizada(dx, dy) ==
  IF dx = 0 /\ dy = 0 THEN 8
  ELSE LET sx == IF 3 * dx * dx > dy * dy THEN Sgn(dx) ELSE 0
           sy == IF 3 * dy * dy > dx * dx THEN Sgn(dy) ELSE 0
       IN (CHOOSE k \in 1 .. 8 : TablaDirecciones[k] = <<sx, sy>>) - 1

\* C19: when no obstacle has its centre strictly within 25 px of the pursuer,
\* the repulsion is exactly zero and the action of the potential field is the
\* quantization of the attraction vector, which points from the pursuer to the
\* target; obstacles whose centre is at 25 px or more never change the action.
C19_SinRepulsion ==
  (prueba.fn = "campo" /\ prueba.hecho) =>
    ((\A k \in 1 .. Len(prueba.obstaculos) : CentroFuera(prueba.enemigo, prueba.obstaculos[k]))
       => prueba.salida = DireccionCuantizada(prueba.jugador[1] - prueba.enemigo[1],
                                              prueba.jugador[2] - prueba.enemigo[2]))

\* C19, reached: the target on the pursuer, one obstacle centred at exactly
\* 25 px, another one far away, and the action Hold of the null attraction
C19_Testigo ==
  /\ prueba.fn = "campo" /\ prueba.hecho
  /\ prueba.enemigo = prueba.jugador
  /\ Len(prueba.obstaculos) = 2
  /\ \A k \in 1 .. 2 : CentroFuera(prueba.enemigo, prueba.obstaculos[k])
  /\ \E k \in 1 .. 2 :
       (2 * prueba.enemigo[1] - (2 * prueba.obstaculos[k].x + prueba.obstaculos[k].ancho)) = -50
  /\ prueba.salida = 8

\* ------------------------------------------------------------------------
\* The loops of one call, iteration by iteration
\* ------------------------------------------------------------------------
\* the grids whose blocked cells lie around the corner (0, 0) and in the middle
GridsBucle ==
  {g \in Grids : \A c \in Celdas : g[c] = 1 => c \in {<<0, 1>>, <<1, 0>>, <<1, 1>>, <<1, 2>>}}

\* a grid search about to enter its while-heap loop (lines 546-554)
BuclesBusqueda ==
  {[llamada |-> "busqueda", fase |-> "frontera", grid |-> g, start |-> s, goal |-> m,
    heap |-> {<<0, s>>}, came_from |-> [n \in {s} |-> None],
    cost_so_far |-> [n \in {s} |-> 0], node |-> None, path |-> <<>>] :
     g \in GridsBucle, s \in Inicios, m \in Metas}

\* generation budgets passed by the callers
Presupuestos == {GENERACIONES_HIBRIDO, GENERACIONES_DEFECTO}

\* a genetic invocation about to enter its generation loop, the population
\* just seeded from the draw 0 on (lines 278-283)
bucle_genetico(cinta, e, j, o, n, ini) ==
  [llamada |-> "genetico", fase |-> "generacion", cinta |-> cinta, enemigo |-> e,
   jugador |-> j, obstaculos |-> o, generaciones |-> n, viejas |-> 0, error |-> FALSE,
   i |-> ini.i % Len(cinta), nueva |-> <<>>, pob |-> ini.pob]

BuclesGenetico ==
  {bucle_genetico(Cinta(sm), e, j, o, n,
     inicializar_poblacion_genetica(Cinta(sm), 0, <<>>, pos_a_grid(e[1], e[2]),
                                    pos_a_grid(j[1], j[2]), TAMANO_POBLACION)) :
     sm \in 0 .. MaxSemilla, j \in PosJugador, o \in Mapas, n \in Presupuestos,
     e \in {PosEnemigo[k] : k \in 1 .. Len(PosEnemigo)}}

InitTerminacion ==
  /\ MotorEnReposo
  /\ busqueda = SinBusqueda
  /\ registradas = <<>>
  /\ prueba = SinPrueba
  /\ evolucion = SinEvolucion
  /\ reloj = 0
  /\ mapa = SinMapa
  /\ \/ bucle \in BuclesBusqueda
     \/ bucle \in BuclesGenetico

\* came_from.get(node)
predecesor(came_from, node) ==
  IF node \in DOMAIN came_from THEN came_from[node] ELSE None

\* list.reverse()
Invertida(s) == [k \in 1 .. Len(s) |-> s[Len(s) + 1 - k]]

\* after the while-heap loop: no route when the goal has no predecessor entry,
\* otherwise the walk back starts at the goal
TrasFrontera(b) ==
  IF b.goal \notin DOMAIN b.came_from
  THEN [b EXCEPT !.fase = "fin"]
  ELSE [b EXCEPT !.fase = "reconstruccion", !.node = b.goal]

\* one iteration of the while-heap loop: pop; break at the goal; else expand
Extraer ==
  /\ bucle.llamada = "busqueda" /\ bucle.fase = "frontera"
  /\ bucle.heap # {}
  /\ LET top == heappop(bucle.heap)
     IN IF top[2] = bucle.goal
        THEN bucle' = TrasFrontera([bucle EXCEPT !.heap = bucle.heap \ {top}])
        ELSE LET st == a_star_expandir(bucle.goal, bucle.heap, bucle.came_from,
                         bucle.cost_so_far, top,
                         ComoFuncion(a_star_mejores(bucle.grid, bucle.came_from,
                                                    bucle.cost_so_far, top[2])))
             IN bucle' = [bucle EXCEPT !.heap = st.heap, !.came_from = st.came_from,
                                       !.cost_so_far = st.cost_so_far]
  /\ reloj' = 1 - reloj
  /\ UNCHANGED <<vars_motor, busqueda, registradas, prueba, evolucion, mapa>>

\* the while-heap loop ends on an empty heap
FronteraVacia ==
  /\ bucle.llamada = "busqueda" /\ bucle.fase = "frontera"
  /\ bucle.heap = {}
  /\ bucle' = TrasFrontera(bucle)
  /\ reloj' = 1 - reloj
  /\ UNCHANGED <<vars_motor, busqueda, registradas, prueba, evolucion, mapa>>

\* one iteration of the walk back: append the node, go to its predecessor
Retroceder ==
  /\ bucle.llamada = "busqueda" /\ bucle.fase = "reconstruccion"
  /\ bucle.node # None
  /\ bucle' = [bucle EXCEPT !.path = Append(bucle.path, bucle.node),
                            !.node = predecesor(bucle.came_from, bucle.node)]
  /\ reloj' = 1 - reloj
  /\ UNCHANGED <<vars_motor, busqueda, registradas, prueba, evolucion, mapa>>

\* the walk back ends at None: the route is reversed and returned
Devolver ==
  /\ bucle.llamada = "busqueda" /\ bucle.fase = "reconstruccion"
  /\ bucle.node = None
  /\ bucle' = [bucle EXCEPT !.path = Invertida(bucle.path), !.fase = "fin"]
  /\ reloj' = 1 - reloj
  /\ UNCHANGED <<vars_motor, busqueda, registradas, prueba, evolucion, mapa>>

\* top of the generation loop: out when the budget is spent, else evaluate,
\* sort and keep the elite
IniciarGeneracion ==
  /\ bucle.llamada = "genetico" /\ bucle.fase = "generacion"
  /\ IF bucle.generaciones = 0
     THEN bucle' = [bucle EXCEPT !.fase = "fin"]
     ELSE LET ordenada == OrdenarPorFitness(
                            evaluar_poblacion(bucle.pob, bucle.jugador, bucle.obstaculos),
                            Len(bucle.pob))
          IN bucle' = [bucle EXCEPT !.fase = "reproduccion", !.pob = ordenada,
                         !.viejas = Len(ordenada),
                         !.nueva = SubSeq(ordenada, 1, Min2(ELITE, Len(ordenada)))]
  /\ reloj' = 1 - reloj
  /\ UNCHANGED <<vars_motor, busqueda, registradas, prueba, evolucion, mapa>>

\* one iteration of the reproduction loop: two tournaments, one crossover, the
\* child appended; an exception of the crossover ends the call
Hijo ==
  /\ bucle.llamada = "genetico" /\ bucle.fase = "reproduccion"
  /\ Len(bucle.nueva) < Len(bucle.pob)
  /\ LET padre1 == seleccion_torneo(bucle.cinta, bucle.i, bucle.pob)
         padre2 == seleccion_torneo(bucle.cinta, padre1.i, bucle.pob)
         c == cruce(bucle.cinta, padre2.i, padre1.ind, padre2.ind)
     IN bucle' = IF c.error
                 THEN [bucle EXCEPT !.fase = "fin", !.error = TRUE, !.i = c.i % Len(bucle.cinta)]
                 ELSE [bucle EXCEPT !.nueva = Append(bucle.nueva, c.hijo),
                                    !.i = c.i % Len(bucle.cinta)]
  /\ reloj' = 1 - reloj
  /\ UNCHANGED <<vars_motor, busqueda, registradas, prueba, evolucion, mapa>>

\* the reproduction loop is left, the new population replaces the old one and
\* is mutated; one generation less to go
CerrarGeneracion ==
  /\ bucle.llamada = "genetico" /\ bucle.fase = "reproduccion"
  /\ ~ (Len(bucle.nueva) < Len(bucle.pob))
  /\ LET m == mutacion(bucle.cinta, bucle.i, bucle.nueva, 1)
     IN bucle' = [bucle EXCEPT !.fase = "generacion", !.pob = m.pob, !.nueva = <<>>,
                               !.i = m.i % Len(bucle.cinta),
                               !.generaciones = bucle.generaciones - 1]
  /\ reloj' = 1 - reloj
  /\ UNCHANGED <<vars_motor, busqueda, registradas, prueba, evolucion, mapa>>

NextTerminacion ==
  \/ Extraer
  \/ FronteraVacia
  \/ Retroceder
  \/ Devolver
  \/ IniciarGeneracion
  \/ Hijo
  \/ CerrarGeneracion

\* the interpreter executes the next iteration as long as the call has not
\* returned; every iteration of NextTerminacion moves the clock
Avanzar == bucle.fase # "fin" /\ reloj' = 1 - reloj

SpecTerminacion == InitTerminacion /\ [][NextTerminacion]_vars /\ WF_reloj(Avanzar)

\* ------------------------------------------------------------------------
\* Termination (specification SpecTerminacion)
\* ------------------------------------------------------------------------
\* a call that has not returned is in one of its loops, where an iteration or
\* the exit can be taken; the walk back never meets a cell twice and ends at
\* the start; the new population never outgrows the old one, and a generation
\* leaves the population at its size
C20_BuclesAcotados ==
  /\ bucle.llamada = "busqueda" => bucle.fase \in {"frontera", "reconstruccion", "fin"}
  /\ bucle.llamada = "genetico" => bucle.fase \in {"generacion", "reproduccion", "fin"}
  /\ (bucle.llamada = "busqueda" /\ bucle.fase = "reconstruccion") =>
       /\ \A a, b \in 1 .. Len(bucle.path) : bucle.path[a] = bucle.path[b] => a = b
       /\ bucle.node # None => \A a \in 1 .. Len(bucle.path) : bucle.path[a] # bucle.node
       /\ bucle.node = None => bucle.path[Len(bucle.path)] = bucle.start
  /\ (bucle.llamada = "genetico" /\ bucle.fase = "reproduccion") =>
       Len(bucle.nueva) <= Len(bucle.pob)
  /\ (bucle.llamada = "genetico" /\ bucle.fase = "generacion") =>
       (bucle.viejas # 0 => Len(bucle.pob) = bucle.viejas)

\* C20: every call terminates, for every grid, obstacle list and generation
\* budget: the frontier loop empties or pops the goal, the walk back along
\* came_from reaches the start (no cycle), and the reproduction loop stops once
\* the new population has the size of the old one.
C20_Termina == <>(bucle.fase = "fin") /\ []C20_BuclesAcotados

\* C20, reached: a search on a grid with blocked cells that popped the goal and
\* walked back a route of 4 cells or more to the start
C20_Testigo ==
  /\ bucle.llamada = "busqueda" /\ bucle.fase = "fin"
  /\ \E c \in Celdas : bucle.grid[c] = 1
  /\ Len(bucle.path) >= 4
  /\ bucle.path[1] = bucle.start /\ bucle.path[Len(bucle.path)] = bucle.goal

\* ---------------------------------------------------------------------------
\* The periodic map update: step() starts a worker thread whose callback
\* set_mapa replaces the environment's obstacle list while the main thread
\* goes on making engine calls.  A list object is an index into mapa.listas;
\* self.obstaculos and an engine call's obstaculos argument are such indices.
\* ---------------------------------------------------------------------------

RADIO_JUGADOR == 10

RADIO_ENEMIGO == 12

\* number of map updates started
MaxActualizaciones == 2

\* what obtener_mapa_aleatorio can hand to the callback: nothing, or a list of
\* obstacle dictionaries
MapasJson ==
  {<<>>,
   <<Obstaculo(300, 100, 50, 50)>>,
   <<Obstaculo(140, 140, 30, 30), Obstaculo(300, 100, 50, 50)>>,
   <<Obstaculo(200, 250, 40, 40), Obstaculo(20, 20, 30, 30)>>}

entidad_rect(p, radio) ==
  [x |-> p[1] - radio, y |-> p[2] - radio, w |-> radio * 2, h |-> radio * 2]

\* the obstacles of mapa_json that overlap neither the target nor a pursuer
filtrar_obstaculos_sin_colision(mapa_json, pj, es) ==
  LET rect(o) == [x |-> o.x, y |-> o.y, w |-> o.ancho, h |-> o.alto]
      colisiona(o) ==
        \/ colliderect(rect(o), entidad_rect(pj, RADIO_JUGADOR))
        \/ \E k \in DOMAIN es : colliderect(rect(o), entidad_rect(es[k], RADIO_ENEMIGO))
  IN SelectSeq(mapa_json, LAMBDA o : ~colisiona(o))

\* the list object the filter fills: the environment's current list
lista_en_sitio(m) == m.self_obstaculos

\* the list object the filter fills: a new one (obstaculos_filtrados = [])
lista_filtrada(m) == m.creadas

InitMapa ==
  /\ MotorEnReposo
  /\ busqueda = SinBusqueda
  /\ registradas = <<>>
  /\ prueba = SinPrueba
  /\ evolucion = SinEvolucion
  /\ bucle = SinBucle
  /\ reloj = 0
  /\ \E o \in Mapas :
       mapa = [fase |-> "reposo",
               listas |-> [id \in 0 .. MaxActualizaciones |-> IF id = 0 THEN o ELSE <<>>],
               creadas |-> 1,
               self_obstaculos |-> 0,
               actualizando |-> FALSE,
               actualizaciones |-> 0,
               nuevo_mapa |-> <<>>,
               filtrados |-> 0,
               llamada |-> [fase |-> "ninguna", ref |-> 0, visto |-> <<>>, leido |-> <<>>]]

\* main thread, end of step(): the interval has elapsed and no update is running
LanzarActualizacion ==
  /\ mapa.fase = "reposo"
  /\ ~mapa.actualizando
  /\ mapa.llamada.fase # "activa"
  /\ mapa.actualizaciones < MaxActualizaciones
  /\ mapa' = [mapa EXCEPT !.actualizando = TRUE, !.fase = "obtener",
                          !.actualizaciones = @ + 1]
  /\ UNCHANGED <<vars_motor, busqueda, registradas, prueba, evolucion, bucle, reloj>>

\* worker: nuevo_mapa = obtener_mapa_aleatorio(...); callback(nuevo_mapa) tests it
ObtenerMapa ==
  /\ mapa.fase = "obtener"
  /\ \E nm \in MapasJson :
       mapa' = [mapa EXCEPT !.nuevo_mapa = nm,
                            !.fase = IF nm # <<>> THEN "filtrar" ELSE "liberar"]
  /\ UNCHANGED <<vars_motor, busqueda, registradas, prueba, evolucion, bucle, reloj>>

\* worker: filtrar_obstaculos_sin_colision(nuevo_mapa, [jugador] + enemigos)
Filtrar ==
  /\ mapa.fase = "filtrar"
  /\ mapa' = [mapa EXCEPT
                !.listas[lista_filtrada(mapa)] =
                   filtrar_obstaculos_sin_colision(mapa.nuevo_mapa, jugador, enemigos),
                !.filtrados = lista_filtrada(mapa),
                !.creadas = @ + 1,
                !.fase = "asignar"]
  /\ UNCHANGED <<vars_motor, busqueda, registradas, prueba, evolucion, bucle, reloj>>

\* worker: self.obstaculos = <the list the filter returned>
Asignar ==
  /\ mapa.fase = "asignar"
  /\ mapa' = [mapa EXCEPT !.self_obstaculos = mapa.filtrados, !.fase = "liberar"]
  /\ UNCHANGED <<vars_motor, busqueda, registradas, prueba, evolucion, bucle, reloj>>

\* worker: delattr(self, "actualizando_mapa"); the thread ends
Liberar ==
  /\ mapa.fase = "liberar"
  /\ mapa' = [mapa EXCEPT !.actualizando = FALSE, !.fase = "reposo"]
  /\ UNCHANGED <<vars_motor, busqueda, registradas, prueba, evolucion, bucle, reloj>>

\* main thread: calcular_accion_inteligente(enemigo, jugador, self.obstaculos, ...)
\* binds the argument and the engine reads the list for the first time
EntrarLlamada ==
  /\ mapa.llamada.fase # "activa"
  /\ mapa' = [mapa EXCEPT
                !.llamada = [fase |-> "activa", ref |-> mapa.self_obstaculos,
                             visto |-> mapa.listas[mapa.self_obstaculos],
                             leido |-> <<>>]]
  /\ UNCHANGED <<vars_motor, busqueda, registradas, prueba, evolucion, bucle, reloj>>

\* main thread: the engine reads its argument for the last time and returns
SalirLlamada ==
  /\ mapa.llamada.fase = "activa"
  /\ mapa' = [mapa EXCEPT !.llamada.fase = "terminada",
                          !.llamada.leido = mapa.listas[mapa.llamada.ref]]
  /\ UNCHANGED <<vars_motor, busqueda, registradas, prueba, evolucion, bucle, reloj>>

NextMapa ==
  \/ LanzarActualizacion
  \/ ObtenerMapa
  \/ Filtrar
  \/ Asignar
  \/ Liberar
  \/ EntrarLlamada
  \/ SalirLlamada

SpecMapa == InitMapa /\ [][NextMapa]_vars

\* C21: the list an engine call received holds, for as long as the call runs
\* and at its last read, the obstacles it held when the call began, whatever
\* the worker thread has done in between
C21_ListaEstable ==
  /\ mapa.llamada.fase = "activa" => mapa.listas[mapa.llamada.ref] = mapa.llamada.visto
  /\ mapa.llamada.fase = "terminada" => mapa.llamada.leido = mapa.llamada.visto

\* the worker replaced the environment's list by a different one during a call
C21_Testigo ==
  /\ mapa.llamada.fase = "terminada"
  /\ mapa.self_obstaculos # mapa.llamada.ref
  /\ mapa.listas[mapa.self_obstaculos] # mapa.llamada.visto
  /\ mapa.llamada.visto # <<>>
  /\ mapa.llamada.leido = mapa.llamada.visto

\* ---------------------------------------------------------------------------
\* The route the genetic optimizer answers with (specification Spec)
\* ---------------------------------------------------------------------------
\* the genetic optimizer ran its generations to the end and chose a route
GeneticoCompleto(r) == r.estrategia = "genetico" /\ r.accion # EXCEPCION

\* the fitness of a route under _evaluar_poblacion's formula, against the
\* target and the obstacles of the current tick
FitnessActual(ruta) == fitness_ruta(ruta, jugador, crear_grid_mejorado(obstaculos))

\* C22: the route whose first step a genetic invocation returns has the
\* greatest fitness, under the evaluation formula, of the routes of the
\* population the invocation leaves
C22_RutaMasApta ==
  \A n \in 1 .. Len(traza) :
    GeneticoCompleto(traza[n]) =>
      \A k \in 1 .. Len(traza[n].pob_despues) :
        FitnessActual(traza[n].mejor) >= FitnessActual(traza[n].pob_despues[k].path)

\* C23: when the population a genetic invocation leaves holds a route of two
\* or more cells, the route the answer is taken from has two or more cells, so
\* Hold is the no-route answer only when no route is valid
C23_QuietoSoloSinRuta ==
  (/\ prueba.fn = "genetico" /\ prueba.hecho
   /\ prueba.salida.accion # EXCEPCION
   /\ \E k \in 1 .. Len(prueba.salida.pob) : Len(prueba.salida.pob[k].path) >= 2)
  => Len(prueba.salida.mejor) >= 2

\* C24: the action a genetic invocation returns is the index, in the action
\* table, of the displacement from the first to the second cell of the route
\* it selected
C24_PrimerPasoDeLaRuta ==
  \A n \in 1 .. Len(traza) :
    (GeneticoCompleto(traza[n]) /\ Len(traza[n].mejor) >= 2)
    => movimientos[traza[n].accion + 1] =
         <<traza[n].mejor[2][2] - traza[n].mejor[1][2],
           traza[n].mejor[2][1] - traza[n].mejor[1][1]>>

\* ---------------------------------------------------------------------------
\* Properties of the generations (specification SpecGenetico)
\* ---------------------------------------------------------------------------
\* C25: after every generation the routes of the 5 individuals of highest
\* fitness of the population that generation evaluated are present, cell for
\* cell, in the population the next generation will evaluate
C25_ElitesSobreviven ==
  (evolucion.fase = "evolucion" /\ evolucion.generacion >= 1) =>
    \A k \in 1 .. ELITE :
      \E m \in 1 .. Len(poblacion_rutas[algoritmo_ia(1)]) :
        poblacion_rutas[algoritmo_ia(1)][m].path =
          OrdenarPorFitness(evolucion.evaluada, Len(evolucion.evaluada))[k].path

\* ---------------------------------------------------------------------------
\* The life of the population over the engine calls (specification Spec)
\* ---------------------------------------------------------------------------
\* the engine call this step of the tick has just made, if any
NuevaLlamada == Len(traza') = Len(traza) + 1

\* C26: a step seeds the population only in a genetic invocation that finds it
\* empty, such an invocation always seeds it, and a population that holds
\* routes holds routes after every step: it is seeded once, by the first
\* genetic invocation, and never again
C26_SiembraUnica ==
  [][/\ poblacion_rutas[algoritmo_ia(1)] # <<>> => poblacion_rutas'[algoritmo_ia(1)] # <<>>
     /\ NuevaLlamada =>
          /\ traza'[Len(traza')].sembro <=>
               (/\ traza'[Len(traza')].estrategia = "genetico"
                /\ poblacion_rutas[algoritmo_ia(1)] = <<>>)
          /\ traza'[Len(traza')].estrategia = "genetico" =>
               poblacion_rutas'[algoritmo_ia(1)] # <<>>]_vars

\* C26, reached: in the second tick a pursuer other than the one whose call
\* seeded the population runs the genetic optimizer on the population kept
C26_Testigo ==
  /\ pasos = 2
  /\ Len(traza) = 2
  /\ traza[1].estrategia = "genetico" /\ ~ traza[1].sembro
  /\ traza[2].estrategia = "genetico" /\ ~ traza[2].sembro
  /\ traza[2].enemigo # traza[1].enemigo
  /\ traza[2].accion # EXCEPCION
  /\ traza[2].pob_antes # <<>> /\ traza[2].pob_despues # traza[2].pob_antes

\* ---------------------------------------------------------------------------
\* Cost of the paths of the grid search (specification SpecAStar)
\* ---------------------------------------------------------------------------
Direcciones == {d \in {-1, 0, 1} \X {-1, 0, 1} : d # <<0, 0>>}

\* cost of a step in direction d taken after a step in direction dprev
\* (<<0, 0>>: no step before), in 1/10000
CostoPaso(dprev, d) ==
  (IF d[1] # 0 /\ d[2] # 0 THEN COSTO_DIAGONAL ELSE COSTO_ORTOGONAL)
  + (IF dprev # <<0, 0>> /\ dprev # d THEN COSTO_GIRO ELSE 0)

\* total movement cost of a path
RECURSIVE CostoCamino(_, _)
CostoCamino(path, k) ==
  IF k < 2 THEN 0
  ELSE CostoCamino(path, k - 1)
       + CostoPaso(IF k = 2 THEN <<0, 0>>
                   ELSE <<path[k-1][1] - path[k-2][1], path[k-1][2] - path[k-2][2]>>,
                   <<path[k][1] - path[k-1][1], path[k][2] - path[k-1][2]>>)

\* more than the cost of any path without repeated cells
SinCosto == (COSTO_DIAGONAL + COSTO_GIRO) * (rows * cols + 1)

\* the function f with all its values computed
Tabulada(f) == IF f = f THEN f ELSE f

\* least cost of reaching each cell with each last direction, over the paths of
\* at most n steps from start through free cells
RECURSIVE CostosMinimos(_, _, _)
CostosMinimos(g, start, n) ==
  IF n = 0
  THEN [s \in (Celdas \cup {start}) \X (Direcciones \cup {<<0, 0>>}) |->
          IF s = <<start, <<0, 0>>>> THEN 0 ELSE SinCosto]
  ELSE Con(Tabulada(CostosMinimos(g, start, n - 1)), LAMBDA D :
         [s \in (Celdas \cup {start}) \X (Direcciones \cup {<<0, 0>>}) |->
            LET c == s[1]
                d == s[2]
                p == <<c[1] - d[1], c[2] - d[2]>>
                llegadas == {D[<<p, dp>>] + CostoPaso(dp, d) :
                               dp \in {e \in Direcciones \cup {<<0, 0>>} :
                                         D[<<p, e>>] < SinCosto}}
            IN IF d = <<0, 0>> \/ ~ EnGrid(c) \/ ~ (p \in Celdas \cup {start})
               THEN D[s]
               ELSE IF g[c] # 0 \/ llegadas = {} THEN D[s]
               ELSE Min2(D[s], CHOOSE x \in llegadas : \A y \in llegadas : x <= y)])

\* least cost of a path from start to goal through free cells
CostoMinimo(g, start, goal) ==
  Con(Tabulada(CostosMinimos(g, start, rows * cols)), LAMBDA D :
        CHOOSE x \in {D[<<goal, d>>] : d \in Direcciones \cup {<<0, 0>>}} :
          \A d \in Direcciones \cup {<<0, 0>>} : x <= D[<<goal, d>>])

\* C27: the path the grid search returns has the least total movement cost of
\* the 8-connected paths from start to goal through free cells
C27_CaminoMasCorto ==
  (busqueda.hecho /\ busqueda.path # <<>>) =>
    CostoCamino(busqueda.path, Len(busqueda.path))
      <= CostoMinimo(busqueda.grid, busqueda.start, busqueda.goal)

\* C29: every cell after the first of a path the grid search returns is a cell
\* of the grid that the grid of the call marks free; the start cell alone may
\* be blocked or outside the grid
C29_CeldasLibres ==
  (busqueda.hecho /\ busqueda.path # <<>>) =>
    \A k \in 2 .. Len(busqueda.path) :
      EnGrid(busqueda.path[k]) /\ busqueda.grid[busqueda.path[k]] = 0

\* C29, reached: from a blocked start cell, a path of at least three cells that
\* passes next to another blocked cell
C29_Testigo ==
  /\ busqueda.hecho /\ Len(busqueda.path) >= 3
  /\ EnGrid(busqueda.start) /\ busqueda.grid[busqueda.start] = 1
  /\ \E c \in Celdas :
       /\ c # busqueda.start /\ busqueda.grid[c] = 1
       /\ \E k \in 2 .. Len(busqueda.path) :
            /\ Abs(busqueda.path[k][1] - c[1]) <= 1
            /\ Abs(busqueda.path[k][2] - c[2]) <= 1

\* ---------------------------------------------------------------------------
\* The cells and the lengths of the routes (specification SpecFunciones)
\* ---------------------------------------------------------------------------
\* the pixel position p is inside the map
EnMapa(p) == 0 <= p[1] /\ p[1] < ancho_mapa /\ 0 <= p[2] /\ p[2] < alto_mapa

\* every cell of every route of the population is a cell of the grid
RutasEnGrid(pob) ==
  \A k \in 1 .. Len(pob) : \A m \in 1 .. Len(pob[k].path) : EnGrid(pob[k].path[m])

\* a call of _mutacion changes at most one cell of a route, to a cell of the
\* grid at most 1 away in each axis
MutacionLocal ==
  (prueba.fn = "mutacion" /\ prueba.hecho) =>
    \A k \in 1 .. Len(prueba.poblacion) :
      LET antes == prueba.poblacion[k].path
          despues == prueba.salida[k].path
      IN /\ DOMAIN despues = DOMAIN antes
         /\ Cardinality({m \in DOMAIN antes : despues[m] # antes[m]}) <= 1
         /\ \A m \in DOMAIN antes :
              despues[m] # antes[m] =>
                /\ Abs(despues[m][1] - antes[m][1]) <= 1
                /\ Abs(despues[m][2] - antes[m][2]) <= 1
                /\ EnGrid(despues[m])

\* C28: when the pursuer whose invocation seeded the population was inside the
\* map, every cell of every route is a cell of the grid after the seeding, the
\* crossovers and the mutations of the invocations made; and a mutation changes
\* one cell by at most 1 in each axis, never to a cell outside the grid
C28_RutasEnGrid ==
  /\ (prueba.fn = "genetico" /\ prueba.hecho /\ EnMapa(prueba.enemigos[1]))
       => RutasEnGrid(prueba.pob)
  /\ MutacionLocal

\* C28, amended: the same when the cell of the pursuer whose invocation seeded
\* the population was a cell of the grid
C28_RutasEnGridDesdeGrid ==
  /\ (/\ prueba.fn = "genetico" /\ prueba.hecho
      /\ EnGrid(pos_a_grid(prueba.enemigos[1][1], prueba.enemigos[1][2])))
       => RutasEnGrid(prueba.pob)
  /\ MutacionLocal

\* C28, reached: a population seeded from a cell of the grid and evolved by
\* two invocations without exception, the second for a pursuer in the map and
\* under the grid, holding different routes, one of three cells or more
C28_Testigo ==
  /\ prueba.fn = "genetico" /\ Len(prueba.enemigos) = 2
  /\ EnGrid(pos_a_grid(prueba.enemigos[1][1], prueba.enemigos[1][2]))
  /\ EnMapa(prueba.enemigos[2])
  /\ ~ EnGrid(pos_a_grid(prueba.enemigos[2][1], prueba.enemigos[2][2]))
  /\ prueba.salida.accion # EXCEPCION
  /\ \E k \in 1 .. Len(prueba.pob) : prueba.pob[k].path # prueba.pob[1].path
  /\ \E k \in 1 .. Len(prueba.pob) : Len(prueba.pob[k].path) >= 3

\* C30: after the genetic invocations made on an engine no route of the
\* population is empty and none has more than 16 cells; the child of a
\* crossover has as many cells as its second parent; a mutation leaves every
\* route its number of cells
C30_LongitudRutas ==
  /\ (prueba.fn = "genetico" /\ prueba.hecho) =>
       \A k \in 1 .. Len(prueba.pob) :
         Len(prueba.pob[k].path) >= 1 /\ Len(prueba.pob[k].path) <= MAX_PASOS + 1
  /\ (prueba.fn = "cruce" /\ prueba.hecho /\ ~ prueba.salida.error) =>
       Len(prueba.salida.hijo.path) = Len(prueba.padre2.path)
  /\ (prueba.fn = "mutacion" /\ prueba.hecho) =>
       \A k \in 1 .. Len(prueba.poblacion) :
         Len(prueba.salida[k].path) = Len(prueba.poblacion[k].path)

\* C30, reached: two invocations without exception have left a population of
\* elites and children in which a route has 16 cells
C30_Testigo ==
  /\ prueba.fn = "genetico" /\ Len(prueba.enemigos) = 2
  /\ prueba.salida.accion # EXCEPCION
  /\ \E k \in 1 .. Len(prueba.pob) : Len(prueba.pob[k].path) = MAX_PASOS + 1
  /\ \E k \in 1 .. Len(prueba.pob) : prueba.pob[k].fitness # 0
  /\ \E k \in 1 .. Len(prueba.pob) : prueba.pob[k].fitness = 0

====
